---- MODULE Spec2Model ----
(***************************************************************************)
(* Model of the egg-price dashboard's data pipeline: the record            *)
(* normalisation (parseRefDate / parseLoadTime / parseFloat), the fetch    *)
(* effect that sorts the rows, and the filter effect that builds the       *)
(* chart's labels and values for the selected time frame.                  *)
(*                                                                         *)
(* JavaScript values are tagged records, strings are sequences of          *)
(* one-character strings, a Date is its broken-down local time (or the     *)
(* Invalid Date), and a number parsed from a price is kept in hundredths.  *)
(***************************************************************************)
EXTENDS Integers, Sequences, FiniteSets, TLC

\* ------------------------------------------------------------------------
\* JavaScript values
\* ------------------------------------------------------------------------
Undef == [t |-> "undefined", n |-> 0, s |-> <<>>]
NullV == [t |-> "null", n |-> 0, s |-> <<>>]
NaNV == [t |-> "NaN", n |-> 0, s |-> <<>>]
Num(k) == [t |-> "number", n |-> k, s |-> <<>>]
Str(cs) == [t |-> "string", n |-> 0, s |-> cs]

\* `x || ''` : the falsy values met here are undefined, null and ''.
Truthy(v) == \/ v.t = "string" /\ v.s # <<>>
             \/ v.t = "number" /\ v.n # 0

DigitChars == <<"0", "1", "2", "3", "4", "5", "6", "7", "8", "9">>
IsDigit(c) == c \in {DigitChars[i] : i \in 1..10}
DigitVal(c) == (CHOOSE i \in 1..10 : DigitChars[i] = c) - 1

\* the number a string of digits denotes
RECURSIVE DigitsVal(_)
DigitsVal(cs) == IF cs = <<>> THEN 0
                 ELSE DigitsVal(SubSeq(cs, 1, Len(cs) - 1)) * 10 + DigitVal(cs[Len(cs)])

RECURSIVE NatToChars(_)
NatToChars(k) == IF k < 10 THEN <<DigitChars[k + 1]>>
                 ELSE NatToChars(k \div 10) \o <<DigitChars[(k % 10) + 1]>>

\* ToString of the values that reach a string conversion here.
ToStringJS(v) ==
    CASE v.t = "string" -> v.s
      [] v.t = "number" -> IF v.n < 0 THEN <<"-">> \o NatToChars(0 - v.n)
                           ELSE NatToChars(v.n)
      [] v.t = "undefined" -> <<"u", "n", "d", "e", "f", "i", "n", "e", "d">>
      [] v.t = "null" -> <<"n", "u", "l", "l">>
      [] OTHER -> <<"N", "a", "N">>

LowerChars == <<"a", "b", "c", "d", "e", "f", "g", "h", "i", "j", "k", "l", "m",
                "n", "o", "p", "q", "r", "s", "t", "u", "v", "w", "x", "y", "z">>
UpperChars == <<"A", "B", "C", "D", "E", "F", "G", "H", "I", "J", "K", "L", "M",
                "N", "O", "P", "Q", "R", "S", "T", "U", "V", "W", "X", "Y", "Z">>

ToUpperChar(c) == IF \E i \in 1..26 : LowerChars[i] = c
                  THEN UpperChars[CHOOSE i \in 1..26 : LowerChars[i] = c]
                  ELSE c

\* String.prototype.toUpperCase
ToUpperCase(cs) == [i \in 1..Len(cs) |-> ToUpperChar(cs[i])] \o <<>>

\* String.prototype.slice(from, to) for 0 <= from <= to
Slice(cs, from, to) ==
    LET hi == IF to < Len(cs) THEN to ELSE Len(cs)
    IN  IF from >= hi THEN <<>> ELSE SubSeq(cs, from + 1, hi)

\* String.prototype.replace(pat, rep) with a one-character string pattern:
\* only the first occurrence is replaced.
ReplaceFirst(cs, pat, rep) ==
    IF \E i \in 1..Len(cs) : cs[i] = pat
    THEN LET k == CHOOSE i \in 1..Len(cs) :
                     cs[i] = pat /\ \A j \in 1..(i - 1) : cs[j] # pat
         IN  SubSeq(cs, 1, k - 1) \o <<rep>> \o SubSeq(cs, k + 1, Len(cs))
    ELSE cs

\* ------------------------------------------------------------------------
\* Dates: local broken-down time, m in 0..11, tod in seconds of the day
\* ------------------------------------------------------------------------
InvalidDate == [ok |-> FALSE, y |-> 0, m |-> 0, d |-> 0, tod |-> 0]

IsLeap(y) == (y % 4 = 0 /\ y % 100 # 0) \/ y % 400 = 0

DaysInMonth(y, m) ==
    IF m = 1 THEN (IF IsLeap(y) THEN 29 ELSE 28)
    ELSE IF m \in {3, 5, 8, 10} THEN 30 ELSE 31

\* MakeDay/MakeDate of ECMAScript for a day of month in 1..31: the month is
\* carried into the year, a day past the end of the month runs into the next.
MakeDate(y, m, d, tod) ==
    LET ym == y * 12 + m
        y1 == ym \div 12
        m1 == ym % 12
        dim == DaysInMonth(y1, m1)
    IN  IF d <= dim
        THEN [ok |-> TRUE, y |-> y1, m |-> m1, d |-> d, tod |-> tod]
        ELSE [ok |-> TRUE, y |-> (ym + 1) \div 12, m |-> (ym + 1) % 12,
              d |-> d - dim, tod |-> tod]

\* The time value of a valid Date is compared through its day (the days
\* counted in an order-preserving way) and its second of the day.
DayNumber(dt) == (dt.y * 12 + dt.m) * 31 + (dt.d - 1)

\* the sign of a - b for two valid Dates
DateDiffSign(a, b) ==
    IF DayNumber(a) # DayNumber(b)
    THEN (IF DayNumber(a) < DayNumber(b) THEN -1 ELSE 1)
    ELSE IF a.tod # b.tod THEN (IF a.tod < b.tod THEN -1 ELSE 1)
    ELSE 0

\* `a >= b` on Dates: false as soon as one side is NaN.
DateGE(a, b) == a.ok /\ b.ok /\ DateDiffSign(a, b) >= 0

\* ------------------------------------------------------------------------
\* parseRefDate (year + reference_period_desc)
\* ------------------------------------------------------------------------
MonthAbbr == << <<"J", "A", "N">>, <<"F", "E", "B">>, <<"M", "A", "R">>,
                <<"A", "P", "R">>, <<"M", "A", "Y">>, <<"J", "U", "N">>,
                <<"J", "U", "L">>, <<"A", "U", "G">>, <<"S", "E", "P">>,
                <<"O", "C", "T">>, <<"N", "O", "V">>, <<"D", "E", "C">> >>

\* monthMap[abbr]: the month index, or undefined
monthMap(abbr) ==
    IF \E i \in 1..12 : MonthAbbr[i] = abbr
    THEN Num((CHOOSE i \in 1..12 : MonthAbbr[i] = abbr) - 1)
    ELSE Undef

\* Abbr without the toUpperCase
Abbr_NoUpperCase(desc) ==
    LET cs == IF Truthy(desc) THEN desc.s ELSE <<>>
    IN  Slice(cs, 0, 3)

\* (reference_period_desc || '').toUpperCase().slice(0, 3)
Abbr(desc) ==
    LET cs == IF Truthy(desc) THEN desc.s ELSE <<>>
    IN  Slice(ToUpperCase(cs), 0, 3)

\* MonthIndex with the months counted from 1
MonthIndex_OneBased(desc) ==
    LET v == monthMap(Abbr(desc))
    IN  IF v.t \in {"undefined", "null"} THEN 0 ELSE v.n + 1

\* MonthIndex with `?? 1` for the default
MonthIndex_DefaultOne(desc) ==
    LET v == monthMap(Abbr(desc))
    IN  IF v.t \in {"undefined", "null"} THEN 1 ELSE v.n

\* monthMap[abbr] ?? 0
MonthIndex(desc) ==
    LET v == monthMap(Abbr(desc))
    IN  IF v.t \in {"undefined", "null"} THEN 0 ELSE v.n

\* ToNumber of a year field: a number, a string of digits, null (0); anything
\* else met here is NaN.
ToNumberJS(v) ==
    CASE v.t = "number" -> v
      [] v.t = "null" -> Num(0)
      [] v.t = "string" /\ v.s = <<>> -> Num(0)
      [] v.t = "string" /\ v.s # <<>> /\ (\A i \in 1..Len(v.s) : IsDigit(v.s[i])) ->
             Num(DigitsVal(v.s))
      [] OTHER -> NaNV

\* new Date(year, m, d): local midnight. A year that is NaN gives the Invalid
\* Date, a year in 0..99 means 1900 + year.
NewDateYMD(year, m, d) ==
    LET yn == ToNumberJS(year)
    IN  IF yn.t # "number" THEN InvalidDate
        ELSE IF yn.n >= 0 /\ yn.n <= 99 THEN MakeDate(1900 + yn.n, m, d, 0)
        ELSE MakeDate(yn.n, m, d, 0)

parseRefDate(row) == NewDateYMD(row.year, MonthIndex(row.reference_period_desc), 1)

\* ------------------------------------------------------------------------
\* parseLoadTime (load_time)
\* ------------------------------------------------------------------------
\* new Date(string) for the ECMAScript date-time format YYYY-MM-DDTHH:mm:ss,
\* read as local time. A string that is not of that format and that no
\* engine's fallback parser reads either gives the Invalid Date.
IsDateTimeFormat(cs) ==
    /\ Len(cs) = 19
    /\ cs[5] = "-" /\ cs[8] = "-" /\ cs[11] = "T" /\ cs[14] = ":" /\ cs[17] = ":"
    /\ \A i \in {1, 2, 3, 4, 6, 7, 9, 10, 12, 13, 15, 16, 18, 19} : IsDigit(cs[i])

NewDateString(cs) ==
    IF ~IsDateTimeFormat(cs) THEN InvalidDate
    ELSE LET y == DigitsVal(SubSeq(cs, 1, 4))
             mo == DigitsVal(SubSeq(cs, 6, 7))
             d == DigitsVal(SubSeq(cs, 9, 10))
             h == DigitsVal(SubSeq(cs, 12, 13))
             mi == DigitsVal(SubSeq(cs, 15, 16))
             sec == DigitsVal(SubSeq(cs, 18, 19))
         IN  IF /\ mo >= 1 /\ mo <= 12
                /\ d >= 1 /\ d <= DaysInMonth(y, mo - 1)
                /\ h <= 23 /\ mi <= 59 /\ sec <= 59
             THEN [ok |-> TRUE, y |-> y, m |-> mo - 1, d |-> d,
                   tod |-> (h * 60 + mi) * 60 + sec]
             ELSE InvalidDate

\* loadTimeStr.replace(...) is a TypeError unless loadTimeStr is a string
parseLoadTimeThrows(loadTimeStr) == loadTimeStr.t # "string"

\* isoStr without the replacement of the space
isoStr_NoReplace(loadTimeStr) == loadTimeStr.s

\* loadTimeStr.replace(' ', 'T')
isoStr(loadTimeStr) == ReplaceFirst(loadTimeStr.s, " ", "T")

parseLoadTime(loadTimeStr) == NewDateString(isoStr(loadTimeStr))

\* ------------------------------------------------------------------------
\* parseFloat(row.Value), in hundredths
\* ------------------------------------------------------------------------
IsWhiteSpace(c) == c = " "

RECURSIVE TrimStart(_)
TrimStart(cs) == IF cs # <<>> /\ IsWhiteSpace(cs[1]) THEN TrimStart(Tail(cs)) ELSE cs

\* the longest prefix of cs made of digits
RECURSIVE DigitPrefix(_)
DigitPrefix(cs) == IF cs # <<>> /\ IsDigit(cs[1])
                   THEN <<cs[1]>> \o DigitPrefix(Tail(cs))
                   ELSE <<>>

\* the first two fraction digits as hundredths
Hundredths(fs) ==
    (IF Len(fs) >= 1 THEN DigitVal(fs[1]) * 10 ELSE 0)
    + (IF Len(fs) >= 2 THEN DigitVal(fs[2]) ELSE 0)

\* parseFloat: leading white space is skipped, then the longest prefix that is
\* a decimal literal [+-] digits [. digits] or [+-] . digits is the number;
\* NaN when there is none. (Exponents and "Infinity" are outside the
\* alphabet of the values modelled.)
parseFloat(v) ==
    LET cs == TrimStart(ToStringJS(v))
        neg == cs # <<>> /\ cs[1] = "-"
        body == IF cs # <<>> /\ cs[1] \in {"-", "+"} THEN Tail(cs) ELSE cs
        ints == DigitPrefix(body)
        rest == SubSeq(body, Len(ints) + 1, Len(body))
        frac == IF rest # <<>> /\ rest[1] = "." THEN DigitPrefix(Tail(rest)) ELSE <<>>
        mag == DigitsVal(ints) * 100 + Hundredths(frac)
    IN  IF ints = <<>> /\ frac = <<>> THEN NaNV
        ELSE Num(IF neg THEN 0 - mag ELSE mag)

isNaN(v) == v.t = "NaN"

\* PriceOf with 0 for a value that is not a number
PriceOf_ZeroForNaN(row) ==
    LET val == parseFloat(row.Value)
    IN  IF isNaN(val) THEN Num(0) ELSE val

\* let val = parseFloat(row.Value); if (isNaN(val)) val = null;
PriceOf(row) ==
    LET val == parseFloat(row.Value)
    IN  IF isNaN(val) THEN NullV ELSE val

\* ------------------------------------------------------------------------
\* State
\* ------------------------------------------------------------------------
VARIABLES
    variant,     \* which PriceChart is deployed: "ref", "load" or "cache"
    fullData,    \* useState([]): the fetched rows
    chartData,   \* useState(null): the labels and values handed to the chart
    timeFrame,   \* useState('5Y')
    loading,     \* useState(false)
    error,       \* useState(null): the error message shown
    now,         \* the wall clock, what new Date() returns
    cutoff,      \* the cutoff of the last run of the filter effect
    filteredAt,  \* ... and the `now` that getCutoffDate read in that run
    fetches,     \* the fetchEggPrices calls awaiting their response
    started,     \* how many fetchEggPrices calls have started
    crashed,     \* an effect threw: React has unmounted the component
    settled,     \* which fetch settled last, how it ended and the data.data it
                 \* got; "none" once another fetch has started since
    footer,      \* the cutoff the footer shows, as the last render computed it
    raw,         \* record normalisation: the row last normalised
    norm,        \* ... and what it gave
    prevRaw,     \* ... the row normalised before it
    prevNorm,    \* ... and what that gave
    prevQuery,   \* the filter as a query: the result of the query before the
                 \* last one, when that had the same window and the same `now`
    env,         \* process.env of the servers: USDA_API_KEY and NEWS_API_KEY
    forwarded,   \* the proxies: the last request and what was sent upstream
    handler,     \* which eggPriceExplanation function is deployed
    event,       \* ... the event.body of its current invocation
    pc,          \* ... where that invocation stands
    calls,       \* ... the external calls it has made, in order
    answers,     \* ... what those calls were answered, in order
    response,    \* ... and what it returned
    selectedPoint, \* useState(null): the point whose explanation is asked for
    explanation, \* useState(''): the explanation shown
    cacheRef,    \* useRef({}): the explanations kept, by key (cache variant)
    requests,    \* the requests for an explanation awaiting their response
    clicked,     \* the clicks on a point: how many, and the point last clicked
    shownFor     \* the point whose request or cache entry `explanation` is from

sessionVars == <<fullData, chartData, timeFrame, loading, error, now, cutoff,
                 filteredAt, fetches, started, crashed, settled, footer>>
normVars == <<raw, norm, prevRaw, prevNorm>>
queryVars == <<prevQuery>>
serverVars == <<env, forwarded, handler, event, pc, calls, answers, response>>
clickVars == <<selectedPoint, explanation, cacheRef, requests, clicked, shownFor>>
vars == <<variant, sessionVars, normVars, queryVars, serverVars, clickVars>>

\* ------------------------------------------------------------------------
\* Rows
\* ------------------------------------------------------------------------
Row(year, desc, load, value) ==
    [year |-> year, reference_period_desc |-> desc, load_time |-> load, Value |-> value]

Two(k) == IF k < 10 THEN <<"0">> \o NatToChars(k) ELSE NatToChars(k)

\* the text "YYYY-MM-DD HH:MM:SS" of a date-time, with the separator given
\* between the date and the time (years of four digits)
FmtDateTime(p, sep) ==
    NatToChars(p.y) \o <<"-">> \o Two(p.mo) \o <<"-">> \o Two(p.d) \o <<sep>>
    \o Two(p.h) \o <<":">> \o Two(p.mi) \o <<":">> \o Two(p.s)

DT(y, mo, d, h, mi, sec) == [y |-> y, mo |-> mo, d |-> d, h |-> h, mi |-> mi, s |-> sec]

\* the rows the record normalisation is applied to
NormYears == {Num(2019), Num(2020), Num(2021), Undef, Str(<<"n", "/", "a">>)}

NormLabels ==
    {Str(MonthAbbr[i]) : i \in 1..12}
    \cup {Str(<<"j", "u", "n">>), Str(<<"J", "u", "n", "e">>), Str(<<"J", "U", "N", "E">>),
          Str(<<"D", "e", "c">>), Str(<<"s", "e", "p", "t">>),
          Str(<<"M", "A", "R", "K", "E", "T", "I", "N", "G">>),
          Str(<<"x", "y", "z">>), Str(<<"J", "A">>), Str(<<" ", "J", "A", "N">>),
          Str(<<>>), Undef, NullV}

NormLoadParts ==
    {DT(2020, 1, 15, 0, 0, 0), DT(2020, 2, 29, 23, 59, 59), DT(2021, 12, 31, 15, 0, 1),
     DT(2019, 6, 1, 9, 30, 0), DT(2021, 6, 15, 12, 0, 0)}

NormLoadTimes ==
    {Str(FmtDateTime(p, " ")) : p \in NormLoadParts}
    \cup {Str(FmtDateTime(DT(2020, 1, 15, 10, 30, 0), "T")),
          Str(<<"g", "a", "r", "b", "a", "g", "e">>), Str(<<>>), Undef, NullV}

NormValues ==
    {Str(<<"1", ".", "5", "0">>), Str(<<"2", ".", "0", "0">>), Str(<<"0">>),
     Str(<<"0", ".", "0", "0">>), Str(<<" ", "3", ".", "1">>), Str(<<"-", "1", ".", "2">>),
     Str(<<".", "5">>), Str(<<"1", "2", "a", "b", "c">>), Num(2),
     Str(<<"a", "b", "c">>), Str(<<"N", "/", "A">>), Str(<<"(", "D", ")">>),
     Str(<<>>), Str(<<" ">>), Str(<<"-">>), Str(<<".">>), NullV, Undef}

NormRows ==
    {Row(y, l, Str(FmtDateTime(DT(2020, 1, 15, 0, 0, 0), " ")), Str(<<"1", ".", "5", "0">>)) :
        y \in NormYears, l \in NormLabels}
    \cup {Row(Num(2020), Str(MonthAbbr[1]), lt, Str(<<"1", ".", "5", "0">>)) :
            lt \in NormLoadTimes}
    \cup {Row(Num(2020), Str(MonthAbbr[6]), Str(FmtDateTime(DT(2020, 2, 29, 23, 59, 59), " ")), v) :
            v \in NormValues}

PairRows ==
    {Row(y, l, Str(FmtDateTime(DT(2020, 1, 15, 0, 0, 0), " ")), Str(<<"1", ".", "5", "0">>)) :
        y \in {Num(2020)}, l \in NormLabels}
    \cup {Row(Num(2021), l, Str(FmtDateTime(DT(2020, 1, 15, 0, 0, 0), " ")),
              Str(<<"1", ".", "5", "0">>)) :
            l \in {Str(<<"j", "u", "n">>), Str(MonthAbbr[6]), Str(<<"x", "y", "z">>)}}

\* ------------------------------------------------------------------------
\* Record normalisation: what the pipeline makes of one row
\* ------------------------------------------------------------------------
NoRow == Row(Undef, Undef, Undef, Undef)
NotNormalised == [applied |-> FALSE, thrown |-> FALSE, ts |-> InvalidDate, value |-> NullV]

\* the date of a row under the deployed convention
RowDateThrows(v, row) == v = "load" /\ parseLoadTimeThrows(row.load_time)
RowDate(v, row) == IF v = "load" THEN parseLoadTime(row.load_time) ELSE parseRefDate(row)

NormalizeRow(v, row) ==
    IF RowDateThrows(v, row)
    THEN [applied |-> TRUE, thrown |-> TRUE, ts |-> InvalidDate, value |-> NullV]
    ELSE [applied |-> TRUE, thrown |-> FALSE, ts |-> RowDate(v, row), value |-> PriceOf(row)]

\* ------------------------------------------------------------------------
\* getCutoffDate
\* ------------------------------------------------------------------------
\* cutoff.setMonth(cutoff.getMonth() - k)
SetMonthBack(dt, k) == MakeDate(dt.y, dt.m - k, dt.d, dt.tod)

\* cutoff.setFullYear(cutoff.getFullYear() - k)
SetFullYearBack(dt, k) == MakeDate(dt.y - k, dt.m, dt.d, dt.tod)

\* getCutoffDate with years for the months of '6M'
getCutoffDate_SixYears(tf, clock) ==
    CASE tf = "1M" -> SetMonthBack(clock, 1)
      [] tf = "3M" -> SetMonthBack(clock, 3)
      [] tf = "6M" -> SetFullYearBack(clock, 6)
      [] tf = "1Y" -> SetFullYearBack(clock, 1)
      [] tf = "5Y" -> SetFullYearBack(clock, 5)
      [] tf = "10Y" -> SetFullYearBack(clock, 10)
      [] OTHER -> SetFullYearBack(clock, 1)

\* getCutoffDate with a switch that has no default case
getCutoffDate_NoDefault(tf, clock) ==
    CASE tf = "1M" -> SetMonthBack(clock, 1)
      [] tf = "3M" -> SetMonthBack(clock, 3)
      [] tf = "6M" -> SetMonthBack(clock, 6)
      [] tf = "1Y" -> SetFullYearBack(clock, 1)
      [] tf = "5Y" -> SetFullYearBack(clock, 5)
      [] tf = "10Y" -> SetFullYearBack(clock, 10)
      [] OTHER -> clock

getCutoffDate(tf, clock) ==
    CASE tf = "1M" -> SetMonthBack(clock, 1)
      [] tf = "3M" -> SetMonthBack(clock, 3)
      [] tf = "6M" -> SetMonthBack(clock, 6)
      [] tf = "1Y" -> SetFullYearBack(clock, 1)
      [] tf = "5Y" -> SetFullYearBack(clock, 5)
      [] tf = "10Y" -> SetFullYearBack(clock, 10)
      [] OTHER -> SetFullYearBack(clock, 1)

TimeFrames == {"1M", "3M", "6M", "1Y", "5Y", "10Y"}

\* ------------------------------------------------------------------------
\* The labels of the chart and of the footer
\* ------------------------------------------------------------------------
MonthShort == <<"Jan", "Feb", "Mar", "Apr", "May", "Jun",
                "Jul", "Aug", "Sep", "Oct", "Nov", "Dec">>

\* d.toLocaleDateString(undefined, {year: 'numeric', month: 'short', day:
\* 'numeric'}), in the en-US locale: "Jun 1, 2017"
Label(mon, day, year) == [mon |-> mon, day |-> day, year |-> year]

\* toLocaleDateString with getMonth() taken for the month's number
toLocaleDateString_MonthOff(dt) ==
    IF dt.ok THEN Label(MonthShort[IF dt.m = 0 THEN 12 ELSE dt.m], dt.d, dt.y)
    ELSE Label("Invalid Date", 0, 0)

toLocaleDateString(dt) ==
    IF dt.ok THEN Label(MonthShort[dt.m + 1], dt.d, dt.y) ELSE Label("Invalid Date", 0, 0)

\* the footer: "Displaying data for date >= " and the cutoff, as the render
\* computes it from its timeFrame and the clock
Footer(tf, clock) == toLocaleDateString(getCutoffDate(tf, clock))
NoFooter == Label("", 0, 0)

\* ------------------------------------------------------------------------
\* The state at mount
\* ------------------------------------------------------------------------
\* the instants the wall clock goes through
ClockInstants ==
    <<MakeDate(2021, 5, 15, 43200), MakeDate(2021, 6, 1, 0), MakeDate(2021, 6, 31, 43200)>>

\* the instants a session lives through
SessionClock == SubSeq(ClockInstants, 1, 2)

NotSettled == [kind |-> "none", data |-> <<>>, id |-> 0]
NoError == [set |-> FALSE, msg |-> ""]
NoChart == [set |-> FALSE, labels |-> <<>>, values |-> <<>>]

SessionInit ==
    /\ fullData = <<>>
    /\ chartData = NoChart
    /\ timeFrame = "5Y"
    /\ loading = FALSE
    /\ error = NoError
    /\ now = ClockInstants[1]
    /\ cutoff = InvalidDate
    /\ filteredAt = InvalidDate
    /\ fetches = {}
    /\ started = 0
    /\ crashed = FALSE
    /\ settled = NotSettled
    /\ footer = IF variant = "cache" THEN NoFooter ELSE Footer("5Y", ClockInstants[1])

NormInit ==
    /\ raw = NoRow
    /\ norm = NotNormalised
    /\ prevRaw = NoRow
    /\ prevNorm = NotNormalised

NoQuery == [set |-> FALSE, chart |-> NoChart]
QueryInit == prevQuery = NoQuery

\* the servers before any request: the key every deployment is given
ConfiguredKey == Str(<<"K", "1">>)
NotForwarded == [set |-> FALSE, by |-> "", from |-> <<>>, to |-> <<>>, status |-> 0]
NoEvent == [kind |-> "none", prompt |-> Undef, date |-> Undef]
NoResponse == [statusCode |-> 0, body |-> [field |-> "", text |-> Undef]]
ServerIdle ==
    /\ forwarded = NotForwarded
    /\ event = NoEvent
    /\ pc = "idle"
    /\ calls = <<>>
    /\ answers = <<>>
    /\ response = NoResponse
\* the explanation panel before any click
Point(label, price) == [set |-> TRUE, label |-> label, price |-> price]
NoPoint == [set |-> FALSE, label |-> NoFooter, price |-> Undef]
EmptyCache == [key \in {} |-> Undef]
ClickInit ==
    /\ selectedPoint = NoPoint
    /\ explanation = Str(<<>>)
    /\ cacheRef = EmptyCache
    /\ requests = {}
    /\ clicked = [n |-> 0, label |-> NoFooter, price |-> Undef]
    /\ shownFor = NoPoint

ServerInit ==
    /\ env = [USDA_API_KEY |-> ConfiguredKey, NEWS_API_KEY |-> ConfiguredKey]
    /\ handler = "news"
    /\ ServerIdle

InitNorm ==
    /\ variant \in {"ref", "load"}
    /\ SessionInit
    /\ NormInit
    /\ QueryInit
    /\ ServerInit
    /\ ClickInit

\* The row normalised before is remembered for the rows of PairRows, which
\* differ in their year and label only.
Normalize(row) ==
    /\ prevRaw' = IF raw \in PairRows /\ row \in PairRows THEN raw ELSE NoRow
    /\ prevNorm' = IF raw \in PairRows /\ row \in PairRows THEN norm ELSE NotNormalised
    /\ raw' = row
    /\ norm' = NormalizeRow(variant, row)
    /\ UNCHANGED <<variant, sessionVars, queryVars, serverVars, clickVars>>

NextNorm == \E row \in NormRows : Normalize(row)

SpecNorm == InitNorm /\ [][NextNorm]_vars

\* ------------------------------------------------------------------------
\* Properties of the record normalisation (under SpecNorm)
\* ------------------------------------------------------------------------
\* two characters equal up to letter case
CaseEq(a, b) == a = b \/ \E j \in 1..26 : {a, b} = {LowerChars[j], UpperChars[j]}

\* the label starts, up to letter case, with the i-th month abbreviation
RecognizedAs(desc, i) ==
    /\ desc.t = "string"
    /\ Len(desc.s) >= 3
    /\ \A k \in 1..3 : CaseEq(desc.s[k], MonthAbbr[i][k])

Midnight(y, m) == [ok |-> TRUE, y |-> y, m |-> m, d |-> 1, tod |-> 0]

\* C3: normalize is total: for every raw record, also one whose year, label
\* or load_time is missing or malformed, it returns without throwing a record
\* whose timestamp is a valid date-time.
C3_NormalizeTotal == norm.applied => (~norm.thrown /\ norm.ts.ok)

\* C5: for every year and every label whose first three characters,
\* uppercased, are one of JAN..DEC, the timestamp is day 1 of that month of
\* that year at 00:00:00.
C5_RecognizedMonth ==
    \A i \in 1..12 :
        (/\ variant = "ref" /\ norm.applied
         /\ raw.year.t = "number"
         /\ RecognizedAs(raw.reference_period_desc, i))
        => (~norm.thrown /\ norm.ts = Midnight(raw.year.n, i - 1))

C5_Witness ==
    /\ variant = "ref" /\ norm.applied
    /\ raw.year = Num(2021)
    /\ RecognizedAs(raw.reference_period_desc, 12)
    /\ raw.reference_period_desc # Str(MonthAbbr[12])
    /\ norm.ts = Midnight(2021, 11)

\* C6: for every label that matches none of the twelve abbreviations, the
\* empty and the missing label included, the timestamp is January 1 of the
\* given year; 'xyz' with 2019 gives 2019-01-01.
C6_DefaultJanuary ==
    (/\ variant = "ref" /\ norm.applied
     /\ raw.year.t = "number"
     /\ \A i \in 1..12 : ~RecognizedAs(raw.reference_period_desc, i))
    => (~norm.thrown /\ norm.ts = Midnight(raw.year.n, 0))

C6_Witness ==
    /\ variant = "ref" /\ norm.applied
    /\ raw.year = Num(2019)
    /\ raw.reference_period_desc = Str(<<"x", "y", "z">>)
    /\ norm.ts = Midnight(2019, 0)

\* the labels agree, up to letter case, on their first three characters
SameAbbrev(a, b) ==
    /\ a.t = "string" /\ b.t = "string"
    /\ LET na == IF Len(a.s) < 3 THEN Len(a.s) ELSE 3
           nb == IF Len(b.s) < 3 THEN Len(b.s) ELSE 3
       IN  na = nb /\ \A k \in 1..na : CaseEq(a.s[k], b.s[k])

\* C7: for a fixed year, labels that differ only in letter case or in the
\* characters after the third yield the same timestamp.
C7_FirstThreeOnly ==
    (/\ variant = "ref" /\ norm.applied /\ prevNorm.applied
     /\ raw.year = prevRaw.year
     /\ SameAbbrev(raw.reference_period_desc, prevRaw.reference_period_desc))
    => norm.ts = prevNorm.ts

C7_Witness ==
    /\ variant = "ref" /\ norm.applied /\ prevNorm.applied
    /\ raw.year = prevRaw.year
    /\ prevRaw.reference_period_desc = Str(<<"j", "u", "n">>)
    /\ raw.reference_period_desc = Str(<<"J", "u", "n", "e">>)
    /\ norm.ts = prevNorm.ts /\ norm.ts.m = 5

\* C8: a load_time 'YYYY-MM-DD HH:MM:SS' yields the date-time that parsing
\* 'YYYY-MM-DDTHH:MM:SS' yields, the time of day preserved.
C8_LoadTimeParsed ==
    \A p \in NormLoadParts :
        (/\ variant = "load" /\ norm.applied
         /\ raw.load_time = Str(FmtDateTime(p, " ")))
        => /\ ~norm.thrown
           /\ norm.ts = NewDateString(FmtDateTime(p, "T"))
           /\ norm.ts = [ok |-> TRUE, y |-> p.y, m |-> p.mo - 1, d |-> p.d,
                          tod |-> (p.h * 60 + p.mi) * 60 + p.s]

C8_Witness ==
    /\ variant = "load" /\ norm.applied
    /\ raw.load_time = Str(FmtDateTime(DT(2021, 12, 31, 15, 0, 1), " "))
    /\ norm.ts = [ok |-> TRUE, y |-> 2021, m |-> 11, d |-> 31, tod |-> 54001]

\* the character at position i of cs, "" past its end
At(cs, i) == IF i >= 1 /\ i <= Len(cs) THEN cs[i] ELSE ""

\* the number of leading spaces of cs
Lead(cs) ==
    IF \A i \in 1..Len(cs) : cs[i] = " " THEN Len(cs)
    ELSE (CHOOSE i \in 1..Len(cs) : cs[i] # " " /\ \A j \in 1..(i - 1) : cs[j] = " ") - 1

\* after its leading spaces and one optional sign, cs goes on with a digit, or
\* with a point and a digit
StartsNumber(cs) ==
    LET k == Lead(cs)
        j == IF At(cs, k + 1) \in {"+", "-"} THEN k + 2 ELSE k + 1
    IN  IsDigit(At(cs, j)) \/ (At(cs, j) = "." /\ IsDigit(At(cs, j + 1)))

\* a raw value that does not parse as a number
NonNumeric(v) == v.t \in {"undefined", "null"} \/ (v.t = "string" /\ ~StartsNumber(v.s))

\* C9: for every raw value that does not parse as a number ('N/A', '', null,
\* missing), the normalised value is null: never 0, and nothing is thrown.
C9_AbsentValue ==
    (/\ norm.applied
     /\ \/ NonNumeric(raw.Value)
        \/ raw.Value \in {Str(<<"N", "/", "A">>), Str(<<>>), NullV, Undef})
    => /\ norm.value = NullV
       /\ norm.value # Num(0)
       /\ raw.load_time.t = "string" => ~norm.thrown

C9_Witness ==
    /\ norm.applied /\ ~norm.thrown
    /\ raw.Value = Str(<<"N", "/", "A">>)
    /\ norm.value = NullV

\* ------------------------------------------------------------------------
\* The fetch effect: data.data.sort(...)
\* ------------------------------------------------------------------------
\* each row with the date the comparator computes for it
Keyed(v, rows) ==
    [i \in 1..Len(rows) |-> [row |-> rows[i], date |-> RowDate(v, rows[i])]] \o <<>>

\* the comparator: the sign of the difference of the two dates, NaN (taken as
\* +0 by sort) when one of them is the Invalid Date
Compare(a, b) ==
    IF a.date.ok /\ b.date.ok THEN DateDiffSign(a.date, b.date) ELSE 0

\* the comparator is called on every row of an array of two rows or more, and
\* parseLoadTime throws on a row without a load_time string
SortThrows(v, rows) ==
    /\ Len(rows) >= 2
    /\ \E i \in 1..Len(rows) : RowDateThrows(v, rows[i])

\* x put behind the last element of the sorted sequence that is not after it
RECURSIVE Insert(_, _)
Insert(sorted, x) ==
    IF sorted = <<>> THEN <<x>>
    ELSE IF Compare(sorted[Len(sorted)], x) <= 0 THEN Append(sorted, x)
    ELSE Append(Insert(SubSeq(sorted, 1, Len(sorted) - 1), x), sorted[Len(sorted)])

\* Array.prototype.sort with a consistent comparator: sorted and stable
RECURSIVE StableSort(_)
StableSort(keyed) ==
    IF keyed = <<>> THEN <<>>
    ELSE Insert(StableSort(SubSeq(keyed, 1, Len(keyed) - 1)), keyed[Len(keyed)])

\* A comparator that calls two rows equal because one has the Invalid Date,
\* and orders them through a third, is not a consistent comparator.
ConsistentComparator(keyed) ==
    \A i, j, k \in 1..Len(keyed) :
        (Compare(keyed[i], keyed[j]) = 0 /\ Compare(keyed[j], keyed[k]) = 0)
        => Compare(keyed[i], keyed[k]) = 0

RowPermutations(rows) ==
    {[i \in 1..Len(rows) |-> rows[f[i]]] :
        f \in {g \in [1..Len(rows) -> 1..Len(rows)] :
                  \A a, b \in 1..Len(rows) : g[a] = g[b] => a = b}}

\* What sort may leave in the array: with an inconsistent comparator the
\* order is implementation-defined (some permutation of the rows).
SortOutcomes(v, rows) ==
    LET keyed == Keyed(v, rows)
        sorted == StableSort(keyed)
    IN  IF ConsistentComparator(keyed)
        THEN {[i \in 1..Len(sorted) |-> sorted[i].row]}
        ELSE RowPermutations(rows)

\* ------------------------------------------------------------------------
\* The filter effect
\* ------------------------------------------------------------------------
\* FilterRows with `>` for `>=`
FilterRows_Strict(v, rows, c) ==
    SelectSeq(rows, LAMBDA row : DateGE(RowDate(v, row), c) /\ RowDate(v, row) # c)

\* fullData.filter(row => date(row) >= cutoff)
FilterRows(v, rows, c) == SelectSeq(rows, LAMBDA row : DateGE(RowDate(v, row), c))

\* labels.push(labelStr) for each filtered row
RECURSIVE PushLabels(_, _, _)
PushLabels(v, rows, acc) ==
    IF rows = <<>> THEN acc
    ELSE PushLabels(v, Tail(rows), Append(acc, toLocaleDateString(RowDate(v, rows[1]))))

\* PushPrices that pushes the values that are numbers only
RECURSIVE PushPrices_SkipNull(_, _)
PushPrices_SkipNull(rows, acc) ==
    IF rows = <<>> THEN acc
    ELSE PushPrices_SkipNull(Tail(rows),
                             IF PriceOf(rows[1]) = NullV THEN acc
                             ELSE Append(acc, PriceOf(rows[1])))

\* prices.push(val) for each filtered row
RECURSIVE PushPrices(_, _)
PushPrices(rows, acc) ==
    IF rows = <<>> THEN acc
    ELSE PushPrices(Tail(rows), Append(acc, PriceOf(rows[1])))

\* the filter callback runs on every row, and parseLoadTime throws on a row
\* without a load_time string
FilterThrows(v, rows) == \E i \in 1..Len(rows) : RowDateThrows(v, rows[i])

\* the chart data the effect sets
ChartOf(v, rows, c) ==
    LET filtered == FilterRows(v, rows, c)
    IN  [set |-> TRUE, labels |-> PushLabels(v, filtered, <<>>),
         values |-> PushPrices(filtered, <<>>)]

\* ------------------------------------------------------------------------
\* The session: PriceChart
\* ------------------------------------------------------------------------
MaxRows == 3
MaxFetches == 2

R2016 == Row(Num(2016), Str(<<"x", "y", "z">>),
             Str(FmtDateTime(DT(2016, 3, 10, 10, 0, 0), " ")), Str(<<"1", ".", "0", "0">>))
R2020 == Row(Num(2020), Str(MonthAbbr[2]),
             Str(FmtDateTime(DT(2020, 8, 1, 0, 0, 0), " ")), Str(<<"a", "b", "c">>))
R2021 == Row(Num(2021), Str(MonthAbbr[1]),
             Str(FmtDateTime(DT(2021, 1, 20, 9, 0, 0), " ")), Str(<<"2", ".", "0", "0">>))
RJune == Row(Num(2021), Str(<<"J", "u", "n", "e">>),
             Str(FmtDateTime(DT(2021, 6, 1, 0, 0, 0), " ")), Str(<<"2", ".", "5", "0">>))
RJan2020 == Row(Num(2020), Str(MonthAbbr[1]),
                Str(FmtDateTime(DT(2020, 1, 15, 0, 0, 0), " ")), Str(<<"1", ".", "5", "0">>))
RBad == Row(Undef, Str(MonthAbbr[1]), Undef, Str(<<"3", ".", "0", "0">>))

\* the rows the upstream may answer with
SessionRows == {R2020, RJune, RBad}

\* arrays of at most MaxRows of the rows given, at most one for a period
Arrays(rows) ==
    UNION {{a \in [1..n -> rows] : \A i, j \in 1..n : a[i] = a[j] => i = j} :
             n \in 0..MaxRows}

\* data.data of a JSON answer: missing, or an array of rows, at most one
\* for a period
UndefinedData == <<Undef>>
Answers == {UndefinedData} \cup Arrays(SessionRows)

\* the rows of the Series that are filtered
FilterRowsDomain == {R2016, RJan2020, R2020, R2021, RJune, RBad}

\* the six time frames of the buttons and a token that is none of them
WindowTokens == TimeFrames \cup {"2Y"}

\* the arrays of rows a session may hold, and the instants it lives through
SessionArrays == Arrays(SessionRows) \ {<<>>}
SessionInstants == {SessionClock[i] : i \in 1..Len(SessionClock)}

\* data.data.sort(...), tabulated for the arrays of a session
SessionSorts ==
    [p \in {"ref", "load"} \X SessionArrays |->
        IF SortThrows(p[1], p[2]) THEN {} ELSE SortOutcomes(p[1], p[2])] @@ <<>>

\* what sort may leave of data
SortedAs(v, data) ==
    IF data \in SessionArrays THEN SessionSorts[<<v, data>>] ELSE SortOutcomes(v, data)

\* the chart data of the filter effect, tabulated for the arrays and the
\* instants of a session
SessionCharts ==
    [p \in {"ref", "load"} \X TimeFrames \X SessionInstants \X SessionArrays |->
        IF FilterThrows(p[1], p[4]) THEN NoChart
        ELSE ChartOf(p[1], p[4], getCutoffDate(p[2], p[3]))] @@ <<>>

\* the chart data for the window tf at the instant clock
ChartAt(v, rows, tf, clock) ==
    IF rows \in SessionArrays /\ clock \in SessionInstants /\ tf \in TimeFrames
    THEN SessionCharts[<<v, tf, clock, rows>>]
    ELSE ChartOf(v, rows, getCutoffDate(tf, clock))

\* FilterEffect with the cutoff taken from the clock as it was when the
\* Series was fetched
FilterEffect_FetchClock(rows, tf) ==
    IF variant = "cache" \/ rows = <<>>
    THEN UNCHANGED <<chartData, cutoff, filteredAt, crashed>>
    ELSE /\ filteredAt' = now
         /\ cutoff' = getCutoffDate(tf, ClockInstants[1])
         /\ IF FilterThrows(variant, rows)
            THEN crashed' = TRUE /\ UNCHANGED chartData
            ELSE /\ chartData' = ChartOf(variant, rows, getCutoffDate(tf, ClockInstants[1]))
                 /\ UNCHANGED crashed

\* FilterEffect with labels and prices kept from one run to the next
FilterEffect_Accumulates(rows, tf) ==
    IF variant = "cache" \/ rows = <<>>
    THEN UNCHANGED <<chartData, cutoff, filteredAt, crashed>>
    ELSE /\ filteredAt' = now
         /\ cutoff' = getCutoffDate(tf, now)
         /\ IF FilterThrows(variant, rows)
            THEN crashed' = TRUE /\ UNCHANGED chartData
            ELSE /\ chartData' =
                      LET new == ChartOf(variant, rows, getCutoffDate(tf, now))
                      IN  [set |-> TRUE, labels |-> chartData.labels \o new.labels,
                           values |-> chartData.values \o new.values]
                 /\ UNCHANGED crashed

\* useEffect(..., [fullData, timeFrame]): the effect as run after a render in
\* which fullData is rows and timeFrame is tf. The cache variant has no such
\* effect.
FilterEffect(rows, tf) ==
    IF variant = "cache" \/ rows = <<>>
    THEN UNCHANGED <<chartData, cutoff, filteredAt, crashed>>
    ELSE /\ filteredAt' = now
         /\ cutoff' = getCutoffDate(tf, now)
         /\ IF FilterThrows(variant, rows)
            THEN crashed' = TRUE /\ UNCHANGED chartData
            ELSE /\ chartData' = ChartAt(variant, rows, tf, now)
                 /\ UNCHANGED crashed

\* the render that follows a change of state, with the timeFrame tf: the
\* footer calls getCutoffDate anew. The cache variant has no footer.
Render(tf) == footer' = IF variant = "cache" THEN NoFooter ELSE Footer(tf, now)

\* how a fetch may end other than with a JSON answer
Failures == {"rejected", "not ok", "not JSON", "bad JSON"}

FailureMessage(f) ==
    CASE f = "rejected" -> "Failed to fetch"
      [] f = "not ok" -> "API error: <statusText>"
      [] f = "not JSON" -> "Invalid response: <text>"
      [] OTHER -> "Unexpected token"

Err(msg) == [set |-> TRUE, msg |-> msg]

\* fetchEggPrices() starts: on mount, and again when the effect is run again
FetchStart ==
    /\ ~crashed
    /\ started < MaxFetches
    /\ started' = started + 1
    /\ fetches' = fetches \cup {started + 1}
    /\ loading' = TRUE
    /\ error' = NoError
    /\ settled' = NotSettled
    /\ Render(timeFrame)
    /\ UNCHANGED <<variant, fullData, chartData, timeFrame, now, cutoff, filteredAt, crashed,
                   normVars, queryVars, serverVars, clickVars>>

\* FetchFails with a catch that only logs the error
FetchFails_Swallows(id, f) ==
    /\ ~crashed
    /\ variant # "cache"
    /\ id \in fetches
    /\ fetches' = fetches \ {id}
    /\ loading' = FALSE
    /\ settled' = [kind |-> f, data |-> <<>>, id |-> id]
    /\ Render(timeFrame)
    /\ UNCHANGED <<variant, fullData, chartData, timeFrame, error, now, cutoff, filteredAt,
                   started, crashed, normVars, queryVars, serverVars, clickVars>>

\* the fetch, the status check, the content-type check or response.json()
\* fails: catch sets the error, finally clears loading
FetchFails(id, f) ==
    /\ ~crashed
    /\ variant # "cache"
    /\ id \in fetches
    /\ fetches' = fetches \ {id}
    /\ error' = Err(FailureMessage(f))
    /\ loading' = FALSE
    /\ settled' = [kind |-> f, data |-> <<>>, id |-> id]
    /\ Render(timeFrame)
    /\ UNCHANGED <<variant, fullData, chartData, timeFrame, now, cutoff, filteredAt, started,
                   crashed, normVars, queryVars, serverVars, clickVars>>

\* response.json() gives data: the empty check, the sort, setFullData, and
\* the filter effect of the render that follows
FetchAnswers(id, data) ==
    /\ ~crashed
    /\ variant # "cache"
    /\ id \in fetches
    /\ fetches' = fetches \ {id}
    /\ loading' = FALSE
    /\ settled' = [kind |-> "JSON", data |-> data, id |-> id]
    /\ IF data = UndefinedData \/ Len(data) = 0
       THEN /\ error' = Err("No price data available")
            /\ UNCHANGED <<fullData, chartData, cutoff, filteredAt, crashed>>
       ELSE IF SortThrows(variant, data)
       THEN /\ error' = Err("TypeError")
            /\ UNCHANGED <<fullData, chartData, cutoff, filteredAt, crashed>>
       ELSE \E sorted \in SortedAs(variant, data) :
                /\ fullData' = sorted
                /\ FilterEffect(sorted, timeFrame)
                /\ UNCHANGED error
    /\ Render(timeFrame)
    /\ UNCHANGED <<variant, timeFrame, now, started, normVars, queryVars, serverVars, clickVars>>

\* the cache variant: fetch or response.json() fails, the error is logged
CacheFetchFails(id) ==
    /\ ~crashed
    /\ variant = "cache"
    /\ id \in fetches
    /\ fetches' = fetches \ {id}
    /\ loading' = FALSE
    /\ settled' = [kind |-> "rejected", data |-> <<>>, id |-> id]
    /\ Render(timeFrame)
    /\ UNCHANGED <<variant, fullData, chartData, timeFrame, error, now, cutoff, filteredAt,
                   started, crashed, normVars, queryVars, serverVars, clickVars>>

\* the cache variant: setFullData(data.data), whatever data.data is
CacheFetchAnswers(id, data) ==
    /\ ~crashed
    /\ variant = "cache"
    /\ id \in fetches
    /\ fetches' = fetches \ {id}
    /\ loading' = FALSE
    /\ settled' = [kind |-> "JSON", data |-> data, id |-> id]
    /\ fullData' = data
    /\ Render(timeFrame)
    /\ UNCHANGED <<variant, chartData, timeFrame, error, now, cutoff, filteredAt, started,
                   crashed, normVars, queryVars, serverVars, clickVars>>

\* SelectTimeFrame whose filter keeps the filtered rows in fullData
SelectTimeFrame_Truncates(tf) ==
    /\ ~crashed
    /\ timeFrame' = tf
    /\ IF tf # timeFrame
       THEN /\ FilterEffect(fullData, tf)
            /\ Render(tf)
            /\ fullData' = IF variant = "cache" \/ FilterThrows(variant, fullData)
                           THEN fullData
                           ELSE FilterRows(variant, fullData, getCutoffDate(tf, now))
       ELSE UNCHANGED <<fullData, chartData, cutoff, filteredAt, crashed, footer>>
    /\ UNCHANGED <<variant, loading, error, now, fetches, started, settled,
                   normVars, queryVars, serverVars, clickVars>>

\* a time frame button is clicked: setTimeFrame(frame), and the filter effect
\* if the time frame changed
SelectTimeFrame(tf) ==
    /\ ~crashed
    /\ timeFrame' = tf
    /\ IF tf # timeFrame
       THEN FilterEffect(fullData, tf) /\ Render(tf)
       ELSE UNCHANGED <<chartData, cutoff, filteredAt, crashed, footer>>
    /\ UNCHANGED <<variant, fullData, loading, error, now, fetches, started, settled,
                   normVars, queryVars, serverVars, clickVars>>

\* time passes: the clock reaches a later one of the instants given
Tick(instants) ==
    /\ \E i \in 1..Len(instants) :
          /\ DateDiffSign(instants[i], now) > 0
          /\ now' = instants[i]
    /\ UNCHANGED <<variant, fullData, chartData, timeFrame, loading, error, cutoff,
                   filteredAt, fetches, started, crashed, settled, footer, normVars,
                   queryVars, serverVars, clickVars>>

Init ==
    /\ variant \in {"ref", "load", "cache"}
    /\ SessionInit
    /\ NormInit
    /\ QueryInit
    /\ ServerInit
    /\ ClickInit

Next ==
    \/ FetchStart
    \/ \E id \in fetches, f \in Failures : FetchFails(id, f)
    \/ \E id \in fetches, data \in Answers : FetchAnswers(id, data)
    \/ \E id \in fetches : CacheFetchFails(id)
    \/ \E id \in fetches, data \in Answers : CacheFetchAnswers(id, data)
    \/ \E tf \in TimeFrames : SelectTimeFrame(tf)
    \/ Tick(SessionClock)

Spec == Init /\ [][Next]_vars

\* ------------------------------------------------------------------------
\* The filter as a query: a Series as the fetch effect builds it, filtered
\* for any window at any instant
\* ------------------------------------------------------------------------
InitFilter ==
    /\ variant \in {"ref", "load"}
    /\ \E data \in Arrays(FilterRowsDomain) :
          /\ Len(data) > 0
          /\ ~SortThrows(variant, data)
          /\ fullData \in SortOutcomes(variant, data)
    /\ chartData = NoChart
    /\ timeFrame = "5Y"
    /\ loading = FALSE
    /\ error = NoError
    /\ now = ClockInstants[1]
    /\ cutoff = InvalidDate
    /\ filteredAt = InvalidDate
    /\ fetches = {}
    /\ started = 1
    /\ crashed = FALSE
    /\ settled = NotSettled
    /\ footer = IF variant = "cache" THEN NoFooter ELSE Footer("5Y", ClockInstants[1])
    /\ NormInit
    /\ QueryInit
    /\ ServerInit
    /\ ClickInit

\* the filter effect run for the window tf; the result of the query before
\* it is remembered when this one repeats it
Filter(tf) ==
    /\ ~crashed
    /\ timeFrame' = tf
    /\ FilterEffect(fullData, tf)
    /\ prevQuery' = IF filteredAt.ok /\ tf = timeFrame /\ now = filteredAt
                    THEN [set |-> TRUE, chart |-> chartData]
                    ELSE NoQuery
    /\ Render(tf)
    /\ UNCHANGED <<variant, fullData, loading, error, now, fetches, started, settled,
                   normVars, serverVars, clickVars>>

NextFilter ==
    \/ \E tf \in WindowTokens : Filter(tf)
    \/ Tick(ClockInstants)

SpecFilter == InitFilter /\ [][NextFilter]_vars

\* ------------------------------------------------------------------------
\* Properties of the filter (under SpecFilter)
\* ------------------------------------------------------------------------
\* d is at or after c, both valid
AtOrAfter(d, c) ==
    /\ d.ok /\ c.ok
    /\ \/ d.y > c.y
       \/ d.y = c.y /\ d.m > c.m
       \/ d.y = c.y /\ d.m = c.m /\ d.d > c.d
       \/ d.y = c.y /\ d.m = c.m /\ d.d = c.d /\ d.tod >= c.tod

\* a Series: every row has a valid timestamp, non-decreasing along it
SortedSeries(v, rows) ==
    /\ \A i \in 1..Len(rows) : ~RowDateThrows(v, rows[i]) /\ RowDate(v, rows[i]).ok
    /\ \A i, j \in 1..Len(rows) :
          i < j => AtOrAfter(RowDate(v, rows[j]), RowDate(v, rows[i]))

\* the positions of the rows at or after the cutoff c
Kept(v, rows, c) ==
    {i \in 1..Len(rows) : ~RowDateThrows(v, rows[i]) /\ AtOrAfter(RowDate(v, rows[i]), c)}

\* the k-th smallest element of a set of positions
Nth(positions, k) ==
    CHOOSE i \in positions : Cardinality({j \in positions : j < i}) = k - 1

\* C1: for every window, sorted Series and now, the filter returns exactly
\* the records whose timestamp >= cutoff_for(window, now): none below the
\* cutoff, every one at or above it exactly once.
C1_FilterExact ==
    (filteredAt.ok /\ SortedSeries(variant, fullData))
    => LET c == getCutoffDate(timeFrame, filteredAt)
           kept == Kept(variant, fullData, c)
       IN  /\ ~crashed /\ chartData.set
           /\ cutoff = c
           /\ Len(chartData.labels) = Cardinality(kept)
           /\ \A k \in 1..Len(chartData.labels) :
                 chartData.labels[k]
                    = toLocaleDateString(RowDate(variant, fullData[Nth(kept, k)]))

\* a record on the cutoff is kept, an older one is left out
C1_Witness ==
    /\ filteredAt = ClockInstants[2] /\ timeFrame = "1M"
    /\ SortedSeries(variant, fullData)
    /\ Len(fullData) = 3
    /\ fullData[3] = RJune
    /\ RowDate(variant, RJune) = cutoff
    /\ chartData.set /\ Len(chartData.labels) = 1
    /\ chartData.labels[1] = Label("Jun", 1, 2021)

\* C10: labels and values have the same length and labels[i], values[i] come
\* from the same record; a record with an absent value that passes the cutoff
\* keeps its position with a null value, neither dropped nor turned into 0.
C10_Aligned ==
    chartData.set
    => /\ Len(chartData.labels) = Len(chartData.values)
       /\ \E f \in [1..Len(chartData.labels) -> 1..Len(fullData)] :
             /\ \A a, b \in 1..Len(chartData.labels) : a < b => f[a] < f[b]
             /\ \A k \in 1..Len(chartData.labels) :
                   /\ chartData.labels[k]
                        = toLocaleDateString(RowDate(variant, fullData[f[k]]))
                   /\ k <= Len(chartData.values)
                   /\ IF NonNumeric(fullData[f[k]].Value)
                      THEN chartData.values[k] = NullV
                      ELSE chartData.values[k] = parseFloat(fullData[f[k]].Value)
             /\ \A i \in Kept(variant, fullData, cutoff) :
                   \E k \in 1..Len(chartData.labels) : f[k] = i

\* a record without a value, between two records with one
C10_Witness ==
    /\ chartData.set
    /\ Len(chartData.labels) = 3 /\ Len(chartData.values) = 3
    /\ chartData.values[1] # NullV
    /\ chartData.values[2] = NullV
    /\ chartData.labels[2] = toLocaleDateString(RowDate(variant, R2020))
    /\ chartData.values[3] # NullV

\* the labels of the rows from position s on
SuffixLabels(v, rows, s) ==
    [k \in 1..(Len(rows) - s + 1) |-> toLocaleDateString(RowDate(v, rows[s + k - 1]))]

\* the rows selected are those from position s on, s the first position at
\* or after the cutoff
SelectedFrom(s) ==
    /\ \A i \in 1..(s - 1) : ~AtOrAfter(RowDate(variant, fullData[i]), cutoff)
    /\ s <= Len(fullData) => AtOrAfter(RowDate(variant, fullData[s]), cutoff)
    /\ chartData.labels = SuffixLabels(variant, fullData, s)

\* C11: for every built Series, window and now, the records selected are
\* exactly a suffix of the Series: from the first record at or after the
\* cutoff on, every record, in Series order.
C11_Suffix ==
    filteredAt.ok
    => /\ ~crashed /\ chartData.set
       /\ \E s \in 1..(Len(fullData) + 1) : SelectedFrom(s)

\* What holds of the filter: the selection is a suffix of a Series whose
\* rows all have a valid timestamp.
SuffixOfSortedSeries ==
    (filteredAt.ok /\ SortedSeries(variant, fullData))
    => /\ ~crashed /\ chartData.set
       /\ \E s \in 1..(Len(fullData) + 1) : SelectedFrom(s)

\* C12: a window token outside {1M, 3M, 6M, 1Y, 5Y, 10Y}, such as '2Y', gives
\* for every now the cutoff of '1Y' and so the filter result of '1Y'; the
\* token itself raises no error.
C12_UnknownAsOneYear ==
    (filteredAt.ok /\ timeFrame \notin TimeFrames)
    => LET c == getCutoffDate("1Y", filteredAt)
       IN  /\ cutoff.ok /\ cutoff = c
           /\ crashed = FilterThrows(variant, fullData)
           /\ ~crashed => chartData = ChartOf(variant, fullData, c)

\* '2Y' at 2021-06-15 12:00: the cutoff is 2020-06-15 12:00, and it splits
\* the Series
C12_Witness ==
    /\ timeFrame = "2Y" /\ filteredAt = ClockInstants[1]
    /\ cutoff = [ok |-> TRUE, y |-> 2020, m |-> 5, d |-> 15, tod |-> 43200]
    /\ chartData.set
    /\ Len(chartData.labels) > 0 /\ Len(chartData.labels) < Len(fullData)

C18_CutoffAtQueryTime ==
    [][now' = now
       => /\ cutoff' = getCutoffDate(timeFrame', now)
          /\ filteredAt' = now
          /\ crashed' \/ chartData' = ChartOf(variant, fullData, cutoff')]_vars

\* '5Y' asked at 2021-07-31 12:00 of a Series built at 2021-06-15 12:00
C18_Witness ==
    /\ now = ClockInstants[3] /\ filteredAt = ClockInstants[3]
    /\ timeFrame = "5Y" /\ chartData.set
    /\ cutoff = [ok |-> TRUE, y |-> 2016, m |-> 6, d |-> 31, tod |-> 43200]
    /\ cutoff # getCutoffDate("5Y", ClockInstants[1])

\* the calendar months a window goes back
WindowMonths(tf) ==
    CASE tf = "1M" -> 1 [] tf = "3M" -> 3 [] tf = "6M" -> 6
      [] tf = "1Y" -> 12 [] tf = "5Y" -> 60 [] tf = "10Y" -> 120

\* the months from year 0 to the month of dt
MonthNumber(dt) == dt.y * 12 + dt.m

\* C19: for every now, the 29th to 31st of a month included, the cutoff of
\* 1M/3M/6M lies in the calendar month 1/3/6 months before now's month, that
\* of 1Y/5Y/10Y in the one 1/5/10 years before, and keeps now's time of day.
C19_ExactCalendar ==
    (filteredAt.ok /\ timeFrame \in TimeFrames)
    => /\ cutoff.ok
       /\ MonthNumber(cutoff) = MonthNumber(filteredAt) - WindowMonths(timeFrame)
       /\ cutoff.tod = filteredAt.tod

\* What holds of the cutoff: from a now on the 1st to the 28th it is the
\* same day of the month that many months back, at the same time of day.
ExactCalendarUpToThe28th ==
    (filteredAt.ok /\ timeFrame \in TimeFrames /\ filteredAt.d <= 28)
    => /\ cutoff.ok
       /\ MonthNumber(cutoff) = MonthNumber(filteredAt) - WindowMonths(timeFrame)
       /\ cutoff.d = filteredAt.d
       /\ cutoff.tod = filteredAt.tod

\* the Series built from (2020, 'JAN', '1.50'), (2020, 'FEB', 'abc') and
\* (2021, 'JAN', '2.00'), filtered for '1Y' at 2021-06-15
ScenarioAsked ==
    /\ variant = "ref"
    /\ Len(fullData) = 3
    /\ {fullData[i] : i \in 1..3} = {RJan2020, R2020, R2021}
    /\ filteredAt = ClockInstants[1]
    /\ timeFrame = "1Y"

\* C20: building from records (2020, 'JAN', '1.50'), (2020, 'FEB', 'abc'),
\* (2021, 'JAN', '2.00') and filtering with now = 2021-06-15 and window '1Y'
\* uses cutoff 2020-06-15 and returns labels = ['Jan 1, 2021'] and
\* values = [2.00].
C20_Scenario ==
    ScenarioAsked
    => /\ fullData = <<RJan2020, R2020, R2021>>
       /\ cutoff.ok /\ cutoff.y = 2020 /\ cutoff.m = 5 /\ cutoff.d = 15
       /\ chartData.set
       /\ chartData.labels = <<Label("Jan", 1, 2021)>>
       /\ chartData.values = <<Num(200)>>

C20_Witness ==
    /\ ScenarioAsked
    /\ cutoff = [ok |-> TRUE, y |-> 2020, m |-> 5, d |-> 15, tod |-> 43200]
    /\ chartData = [set |-> TRUE, labels |-> <<Label("Jan", 1, 2021)>>,
                    values |-> <<Num(200)>>]

\* the windows, from the longest to the shortest
WindowsByLength == <<"10Y", "5Y", "1Y", "6M", "3M", "1M">>

\* the cutoffs of the six windows at one instant, each at or after the one
\* of the next longer window, and the instant at or after them all
CutoffsOrdered(clock) ==
    /\ \A i \in 1..5 : AtOrAfter(getCutoffDate(WindowsByLength[i + 1], clock),
                                 getCutoffDate(WindowsByLength[i], clock))
    /\ AtOrAfter(clock, getCutoffDate("1M", clock))

\* the chart short is the end of the chart long
ChartSuffix(short, long) ==
    /\ Len(short.labels) <= Len(long.labels)
    /\ short.labels = SubSeq(long.labels, Len(long.labels) - Len(short.labels) + 1,
                             Len(long.labels))
    /\ short.values = SubSeq(long.values, Len(long.values) - Len(short.values) + 1,
                             Len(long.values))

\* the chart shown is the end of what every longer window gives of the same
\* Series at the same instant
SuffixOfLongerWindows ==
    \A i, j \in 1..6 :
        (i < j /\ WindowsByLength[j] = timeFrame)
        => ChartSuffix(chartData,
                       ChartOf(variant, fullData, getCutoffDate(WindowsByLength[i], filteredAt)))

\* C26: for every now the cutoffs are ordered, cutoff(10Y) <= cutoff(5Y) <=
\* cutoff(1Y) <= cutoff(6M) <= cutoff(3M) <= cutoff(1M) <= now, and so on the
\* same Series (rows with a valid timestamp, in order) the result of a
\* shorter window is a suffix of the result of every longer window.
C26_NestedWindows ==
    /\ CutoffsOrdered(now)
    /\ (filteredAt.ok /\ SortedSeries(variant, fullData))
       => (~crashed /\ chartData.set /\ SuffixOfLongerWindows)

\* one month shown of a Series of which five years show more
C26_Witness ==
    /\ filteredAt = ClockInstants[2] /\ timeFrame = "1M"
    /\ SortedSeries(variant, fullData)
    /\ chartData.set /\ Len(chartData.labels) = 1
    /\ Len(ChartOf(variant, fullData, getCutoffDate("5Y", filteredAt)).labels) > 1

\* ------------------------------------------------------------------------
\* Properties of the session (under Spec)
\* ------------------------------------------------------------------------
\* the fetch that settled last got a JSON answer with a non-empty data.data
AnsweredRows ==
    /\ settled.kind = "JSON"
    /\ settled.data # UndefinedData
    /\ Len(settled.data) > 0

\* the fetch that settled last got a JSON answer with no data.data, or an
\* empty one
AnsweredNothing ==
    /\ settled.kind = "JSON"
    /\ settled.data = UndefinedData \/ settled.data = <<>>

\* every row has the date field of the deployed convention, well-formed
WellFormed(v, rows) ==
    \A i \in 1..Len(rows) : ~RowDateThrows(v, rows[i]) /\ RowDate(v, rows[i]).ok

\* b holds the rows of a, each as often
SameRows(a, b) ==
    /\ Len(a) = Len(b)
    /\ \A r \in {a[i] : i \in 1..Len(a)} \cup {b[i] : i \in 1..Len(b)} :
          Cardinality({i \in 1..Len(a) : a[i] = r})
            = Cardinality({i \in 1..Len(b) : b[i] = r})

\* C2: build applied to any non-empty collection of raw records yields a
\* Series whose timestamps are non-decreasing and whose length is that of
\* the input.
C2_BuildSorted ==
    (variant # "cache" /\ AnsweredRows)
    => /\ Len(fullData) = Len(settled.data)
       /\ SortedSeries(variant, fullData)

\* What holds of build: on rows that all have a well-formed date, it yields
\* the rows sorted.
BuildSortedWellFormed ==
    (variant # "cache" /\ AnsweredRows /\ WellFormed(variant, settled.data))
    => /\ SameRows(settled.data, fullData)
       /\ SortedSeries(variant, fullData)
       /\ ~error.set \/ started > 1

\* C4: when the raw record collection is empty or absent, build signals 'no
\* data available' (the error is set) and the Series slot is never set to an
\* empty Series silently.
C4_NoDataSignalled ==
    AnsweredNothing => error = Err("No price data available")

\* What holds of the variants that check data.data: the error is set and the
\* Series slot is left as it was.
NoDataSignalledWhereChecked ==
    (variant # "cache" /\ AnsweredNothing)
    => /\ error = Err("No price data available")
       /\ fullData = <<>> => ~chartData.set

\* C13: the filter query never mutates the Series: whatever windows are
\* selected, the Series the session holds stays, element for element and in
\* order, the one build produced, and nothing is fetched or sorted again.
C13_SeriesUntouched ==
    [][timeFrame' # timeFrame
       => /\ fullData' = fullData
          /\ started' = started /\ fetches' = fetches
          /\ settled' = settled /\ loading' = loading]_vars

\* one fetch, then another window selected: the chart shows one row of the
\* two the Series still holds
C13_Witness ==
    /\ started = 1 /\ fetches = {} /\ AnsweredRows
    /\ timeFrame = "1M" /\ filteredAt.ok
    /\ chartData.set /\ Len(chartData.labels) = 1
    /\ Len(fullData) = 2 /\ SameRows(settled.data, fullData)

\* The states of the session, as the component renders them: Failed shows
\* the error, Ready has a Series and no error, Empty has neither.
Empty == fullData = <<>> /\ ~error.set
Ready == fullData # <<>> /\ ~error.set
Failed == error.set

\* in this step a fetch settles
Settles == settled' # settled /\ settled'.id \in fetches

\* ... having acquired raw records
Acquires ==
    /\ Settles
    /\ settled'.kind = "JSON"
    /\ settled'.data # UndefinedData /\ Len(settled'.data) > 0

\* C15: the session moves Empty -> Ready once per fetch cycle, on successful
\* acquisition of raw records; while Empty the filter produces no output
\* whatever window is selected; there is no Ready -> Empty transition; an
\* acquisition error moves the session to Failed, and Failed is left only
\* through a fresh fetch attempt.
C15_StateMachine ==
    /\ [](variant = "ref" => (fullData = <<>> => ~chartData.set))
    /\ [][variant = "ref"
          => /\ (Empty /\ Ready') <=> (Empty /\ Acquires)
             /\ Acquires => settled'.id \notin fetches'
             /\ Ready => ~Empty'
             /\ (Settles /\ ~Acquires) => Failed'
             /\ (Failed /\ ~Failed') => (started' = started + 1 /\ Settles = FALSE)]_vars

\* a failed fetch, a fresh one, and its rows in the chart
C15_Witness ==
    /\ variant = "ref" /\ started = 2 /\ fetches = {}
    /\ settled.id = 2 /\ AnsweredRows
    /\ Ready /\ chartData.set

\* what the caller sees of the session
Observable == <<fullData, error, loading>>

\* ... before anything was fetched
ObservableAtMount == <<<<>>, NoError, FALSE>>

\* C16: the caller can tell 'not yet fetched', 'fetched but empty' and
\* 'fetched with data' apart: no two of them give the same observable
\* (Series, error, loading); so a session that has fetched, with or without
\* data, never looks like the one that has not fetched yet.
C16_Distinguishable ==
    (AnsweredNothing \/ AnsweredRows) => Observable # ObservableAtMount

\* What holds of the variants that check data.data: a fetch that has settled
\* with a JSON answer leaves an error or a Series to see.
DistinguishableWhereChecked ==
    (variant # "cache" /\ (AnsweredNothing \/ AnsweredRows))
    => /\ Observable # ObservableAtMount
       /\ AnsweredNothing => error = Err("No price data available")

\* C17: when a fetch is superseded by a later one, its result, arriving after
\* the later fetch has started, is discarded: it leaves the Series and the
\* error as they are, so that the Series held in the end is the one of the
\* fetch started last.
C17_StaleDiscarded ==
    [][(variant = "ref" /\ Settles /\ settled'.id < started)
       => (fullData' = fullData /\ error' = error)]_vars


\* the fetch that settled last failed: it was rejected, answered with a
\* status not OK, with no JSON or with JSON that does not parse, with no
\* data, or with data the sort threw on
FetchFailed ==
    \/ settled.kind \in Failures
    \/ settled.kind = "JSON"
       /\ (settled.data = UndefinedData \/ settled.data = <<>>
           \/ (variant # "cache" /\ SortThrows(variant, settled.data)))

\* C27: a fetch that has settled, on success and on every failure path, leaves
\* loading = false: the session does not stay loading once no fetch is
\* pending, and error is non-null exactly when the fetch failed.
C27_SettledNotLoading ==
    (fetches = {} /\ settled.kind # "none")
    => /\ ~loading
       /\ error.set <=> FetchFailed

\* what holds: the same of PriceChart.jsx and of the load_time variant, for
\* the fetch of the mount
SettledNotLoadingWhereErrorIsKept ==
    (variant # "cache" /\ started = 1 /\ fetches = {} /\ settled.kind # "none")
    => /\ ~loading
       /\ error.set <=> FetchFailed
\* ------------------------------------------------------------------------
\* The proxies: the Express server and the usdaProxy function
\* ------------------------------------------------------------------------
StartsWith(cs, pre) == Len(cs) >= Len(pre) /\ SubSeq(cs, 1, Len(pre)) = pre

\* String.prototype.includes of one character
Includes(cs, c) == \E i \in 1..Len(cs) : cs[i] = c

\* req.path: the URL up to its query string
PathOf(url) ==
    IF Includes(url, "?")
    THEN SubSeq(url, 1, (CHOOSE i \in 1..Len(url) :
                            url[i] = "?" /\ \A j \in 1..(i - 1) : url[j] # "?") - 1)
    ELSE url

\* app.use('/usda', ...): Express matches a mount path on whole segments and,
\* `case sensitive routing` being off by default, in any letter case
MountMatches(url) ==
    LET path == PathOf(url)
    IN  /\ StartsWith(ToUpperCase(path), <<"/", "U", "S", "D", "A">>)
        /\ (IF Len(path) > 5 THEN path[6] = "/" ELSE TRUE)

\* originalUrl.replace(/^\/usda/, '/api')
ReplaceUsdaPrefix(url) ==
    IF StartsWith(url, <<"/", "u", "s", "d", "a">>) THEN <<"/", "a", "p", "i">> \o SubSeq(url, 6, Len(url)) ELSE url

\* `${process.env.USDA_API_KEY || 'NO_KEY_FOUND'}`
KeyOrNotFound(key) == IF Truthy(key) THEN ToStringJS(key) ELSE <<"N", "O", "_", "K", "E", "Y", "_", "F", "O", "U", "N", "D">>

proxyReqPathResolver(originalUrl, key) ==
    LET newPath == ReplaceUsdaPrefix(originalUrl)
    IN  IF Includes(newPath, "?")
        THEN newPath \o <<"&", "k", "e", "y", "=">> \o KeyOrNotFound(key)
        ELSE newPath \o <<"?", "k", "e", "y", "=">> \o KeyOrNotFound(key)

\* the requests the Express server is sent, and the status upstream answers
ProxyUrls ==
    { <<"/", "u", "s", "d", "a", "/", "a", "p", "i", "_", "G", "E", "T", "/", "?", "f", "o", "r", "m", "a", "t", "=", "J", "S", "O", "N">>, <<"/", "u", "s", "d", "a", "/", "a", "p", "i", "_", "G", "E", "T", "/">>, <<"/", "u", "s", "d", "a">>, <<"/", "u", "s", "d", "a", "?", "y", "e", "a", "r", "=", "2", "0", "2", "0">>,
      <<"/", "u", "s", "d", "a", "/", "g", "e", "t", "_", "c", "o", "u", "n", "t", "s", "/", "?", "k", "e", "y", "=", "m", "i", "n", "e">>, <<"/", "U", "S", "D", "A", "/", "a", "p", "i", "_", "G", "E", "T", "/", "?", "f", "o", "r", "m", "a", "t", "=", "J", "S", "O", "N">>, <<"/", "U", "s", "d", "a", "/", "a", "p", "i", "_", "G", "E", "T", "/">>,
      <<"/", "u", "s", "d", "a", "s", "/", "a", "p", "i", "_", "G", "E", "T", "/">>, <<"/", "a", "p", "i", "/", "a", "p", "i", "_", "G", "E", "T", "/">>, <<"/">> }
UpstreamStatus == {200, 500}

\* a request to the Express server; one that the mount does not match is
\* left to the next middleware, which there is none of
ProxyRequest(url, status) ==
    /\ MountMatches(url)
    /\ forwarded' = [set |-> TRUE, by |-> "express", from |-> url,
                     to |-> proxyReqPathResolver(url, env.USDA_API_KEY), status |-> status]
    /\ UNCHANGED <<variant, sessionVars, normVars, queryVars, env, handler, event, pc,
                   calls, answers, response, clickVars>>

\* a query string parameter
Param(name, value) == [name |-> name, value |-> value]

\* URLSearchParams.prototype.set: the first pair of that name takes the
\* value and the others of that name go; without one, a pair is appended
RECURSIVE WithoutParam(_, _)
WithoutParam(params, name) ==
    IF params = <<>> THEN <<>>
    ELSE IF Head(params).name = name THEN WithoutParam(Tail(params), name)
    ELSE <<Head(params)>> \o WithoutParam(Tail(params), name)

ParamsSet(params, name, value) ==
    IF \E i \in 1..Len(params) : params[i].name = name
    THEN LET k == CHOOSE i \in 1..Len(params) :
                     params[i].name = name /\ \A j \in 1..(i - 1) : params[j].name # name
         IN  SubSeq(params, 1, k - 1) \o <<Param(name, value)>>
             \o WithoutParam(SubSeq(params, k + 1, Len(params)), name)
    ELSE Append(params, Param(name, value))

\* URLSearchParams.prototype.toString, for names and values that need no
\* percent-encoding
RECURSIVE ParamsToString(_)
ParamsToString(params) ==
    IF params = <<>> THEN <<>>
    ELSE Head(params).name \o <<"=">> \o Head(params).value
         \o (IF Len(params) > 1 THEN <<"&">> ELSE <<>>) \o ParamsToString(Tail(params))

\* the path and query of usdaUrl
usdaUrl(query, key) ==
    LET queryParams == IF Truthy(key) THEN ParamsSet(query, <<"k", "e", "y">>, ToStringJS(key))
                       ELSE query
    IN  <<"/", "a", "p", "i", "/", "a", "p", "i", "_", "G", "E", "T", "/", "?">> \o ParamsToString(queryParams)

\* event.queryStringParameters of the requests the function is sent
ProxyQueries ==
    { <<>>,
      <<Param(<<"f", "o", "r", "m", "a", "t">>, <<"J", "S", "O", "N">>)>>,
      <<Param(<<"y", "e", "a", "r", "_", "_", "G", "E">>, <<"2", "0", "1", "5">>), Param(<<"f", "o", "r", "m", "a", "t">>, <<"J", "S", "O", "N">>)>>,
      <<Param(<<"k", "e", "y">>, <<"m", "i", "n", "e">>), Param(<<"f", "o", "r", "m", "a", "t">>, <<"J", "S", "O", "N">>)>> }

\* the usdaProxy function, from the request to what it returns
UsdaProxy(query, status) ==
    /\ forwarded' = [set |-> TRUE, by |-> "netlify", from |-> ParamsToString(query),
                     to |-> usdaUrl(query, env.USDA_API_KEY),
                     status |-> IF status = 200 THEN 200 ELSE 500]
    /\ UNCHANGED <<variant, sessionVars, normVars, queryVars, env, handler, event, pc,
                   calls, answers, response, clickVars>>

\* ------------------------------------------------------------------------
\* The eggPriceExplanation functions: "news" (News API, then the model),
\* "ddg" (DuckDuckGo, then the model) and "hf" (the model alone)
\* ------------------------------------------------------------------------
Handlers == {"news", "ddg", "hf"}

\* event.body: text that is no JSON, the JSON null, or a JSON object
Body(prompt, date) == [kind |-> "object", prompt |-> prompt, date |-> date]
MalformedBody == [kind |-> "malformed", prompt |-> Undef, date |-> Undef]
NullBody == [kind |-> "null", prompt |-> Undef, date |-> Undef]

\* the dates a client sends: a label of the chart, text that is no date,
\* the empty string, or none
LabelText == <<"F", "e", "b", " ", "1", ",", " ", "2", "0", "2", "1">>
Bodies ==
    {MalformedBody, NullBody}
    \cup {Body(p, d) : p \in {Undef, Str(<<"E", "g", "g", "s", " ", "w", "e", "r", "e", " ", "$", "2">>)},
                       d \in {Undef, Str(<<>>), Str(LabelText), Str(<<"s", "o", "o", "n">>)}}

\* new Date(date).toISOString() throws a RangeError for text V8 reads no date in
ToISOStringThrows(date) == date.s # LabelText

\* the messages of the errors thrown
SyntaxErrorMessage == <<"U", "n", "e", "x", "p", "e", "c", "t", "e", "d", " ", "t", "o", "k", "e", "n">>
DestructureMessage == <<"C", "a", "n", "n", "o", "t", " ", "d", "e", "s", "t", "r", "u", "c", "t", "u", "r", "e", " ", "p", "r", "o", "p", "e", "r", "t", "y", " ", "'", "p", "r", "o", "m", "p", "t", "'">>
RangeErrorMessage == <<"I", "n", "v", "a", "l", "i", "d", " ", "t", "i", "m", "e", " ", "v", "a", "l", "u", "e">>
TypeErrorMessage == <<"C", "a", "n", "n", "o", "t", " ", "r", "e", "a", "d", " ", "p", "r", "o", "p", "e", "r", "t", "i", "e", "s", " ", "o", "f", " ", "u", "n", "d", "e", "f", "i", "n", "e", "d">>
FetchErrorMessage == <<"r", "e", "q", "u", "e", "s", "t", " ", "f", "a", "i", "l", "e", "d">>
InvalidJsonMessage == <<"i", "n", "v", "a", "l", "i", "d", " ", "j", "s", "o", "n", " ", "r", "e", "s", "p", "o", "n", "s", "e", " ", "b", "o", "d", "y">>

\* JSON.parse(event.body) and the destructuring of what it gives
ParseThrows(body) == body.kind # "object"
ParseMessage(body) ==
    IF body.kind = "malformed" THEN SyntaxErrorMessage ELSE DestructureMessage

\* what a search answers: the request fails, or there is a response, OK or
\* not, whose body is no JSON ("text") or is JSON with or without something
\* to quote; an article of the News API may lack its source
SearchAnswer(kind, statusText, ok, body) ==
    [kind |-> kind, statusText |-> statusText, ok |-> ok, body |-> body]
SearchAnswers ==
    { SearchAnswer("rejects", <<>>, FALSE, "text"),
      SearchAnswer("answers", <<"U", "n", "a", "u", "t", "h", "o", "r", "i", "z", "e", "d">>, FALSE, "text"),
      SearchAnswer("answers", <<"T", "o", "o", " ", "M", "a", "n", "y", " ", "R", "e", "q", "u", "e", "s", "t", "s">>, FALSE, "none"),
      SearchAnswer("answers", <<"O", "K">>, TRUE, "text"),
      SearchAnswer("answers", <<"O", "K">>, TRUE, "none"),
      SearchAnswer("answers", <<"O", "K">>, TRUE, "some"),
      SearchAnswer("answers", <<"O", "K">>, TRUE, "nosource") }

\* what the model answers: the request fails, the status is not OK, the body
\* is no JSON, or it is JSON: an object with an error field, an empty array,
\* an object without fields, or an array of generated texts
ModelAnswer(kind, text) == [kind |-> kind, text |-> text]
GeneratedTexts ==
    { <<"F", "e", "e", "d", " ", "c", "o", "s", "t", "s", " ", "r", "o", "s", "e", ".">>, <<"E", "x", "p", "l", "a", "n", "a", "t", "i", "o", "n", ":", " ", "F", "e", "e", "d", " ", "c", "o", "s", "t", "s", " ", "r", "o", "s", "e", ".">>, <<"E", "x", "p", "l", "a", "n", "a", "t", "i", "o", "n", ":", " ", " ">> }
ModelAnswers ==
    { ModelAnswer("rejects", <<>>), ModelAnswer("status", <<"S", "e", "r", "v", "i", "c", "e", " ", "U", "n", "a", "v", "a", "i", "l", "a", "b", "l", "e">>),
      ModelAnswer("text", <<>>), ModelAnswer("error", <<"M", "o", "d", "e", "l", " ", "i", "s", " ", "l", "o", "a", "d", "i", "n", "g">>),
      ModelAnswer("empty", <<>>), ModelAnswer("object", <<>>) }
    \cup {ModelAnswer("generated", t) : t \in GeneratedTexts}

\* what the function returns
Returned(code, field, text) ==
    [statusCode |-> code, body |-> [field |-> field, text |-> Str(text)]]

\* the catch block
Caught_Rethrows(message) ==
    /\ response' = [statusCode |-> 0, body |-> [field |-> "thrown", text |-> Str(message)]]
    /\ pc' = "done"

Caught(message) ==
    /\ response' = Returned(500, "error", message)
    /\ pc' = "done"

\* the external call that follows
Await(service) ==
    /\ calls' = Append(calls, service)
    /\ pc' = service
    /\ response' = NoResponse

\* an invocation, up to the first await or to what it returns
Invoke_News_KeyAfterSearch(body) ==
    IF ParseThrows(body) THEN Caught(ParseMessage(body)) /\ calls' = <<>>
    ELSE IF ~Truthy(body.date) THEN Caught(<<"D", "a", "t", "e", " ", "i", "s", " ", "r", "e", "q", "u", "i", "r", "e", "d">>) /\ calls' = <<>>
    ELSE IF ToISOStringThrows(body.date) THEN Caught(RangeErrorMessage) /\ calls' = <<>>
    ELSE calls' = <<"news">> /\ pc' = "news" /\ response' = NoResponse

Invoke_News(body) ==
    IF ParseThrows(body) THEN Caught(ParseMessage(body)) /\ calls' = <<>>
    ELSE IF ~Truthy(body.date) THEN Caught(<<"D", "a", "t", "e", " ", "i", "s", " ", "r", "e", "q", "u", "i", "r", "e", "d">>) /\ calls' = <<>>
    ELSE IF ToISOStringThrows(body.date) THEN Caught(RangeErrorMessage) /\ calls' = <<>>
    ELSE IF ~Truthy(env.NEWS_API_KEY) THEN Caught(<<"M", "i", "s", "s", "i", "n", "g", " ", "N", "E", "W", "S", "_", "A", "P", "I", "_", "K", "E", "Y">>) /\ calls' = <<>>
    ELSE calls' = <<"news">> /\ pc' = "news" /\ response' = NoResponse

Invoke_Other(body, service) ==
    IF ParseThrows(body) THEN Caught(ParseMessage(body)) /\ calls' = <<>>
    ELSE calls' = <<service>> /\ pc' = service /\ response' = NoResponse

Invoke(body) ==
    /\ pc \in {"idle", "done"}
    /\ event' = body
    /\ CASE handler = "news" -> Invoke_News(body)
         [] handler = "ddg" -> Invoke_Other(body, "ddg")
         [] OTHER -> Invoke_Other(body, "model")
    /\ answers' = <<>>
    /\ UNCHANGED <<variant, sessionVars, normVars, queryVars, env, forwarded, handler,
                   clickVars>>

\* the search has answered: up to the call of the model or to what is returned
SearchResponds_News(a) ==
    CASE a.kind = "rejects" -> Caught(FetchErrorMessage) /\ calls' = calls
      [] a.kind # "rejects" /\ ~a.ok ->
            Caught(<<"N", "e", "w", "s", " ", "A", "P", "I", " ", "e", "r", "r", "o", "r", ":", " ">> \o a.statusText) /\ calls' = calls
      [] a.kind # "rejects" /\ a.ok /\ a.body = "text" ->
            Caught(InvalidJsonMessage) /\ calls' = calls
      [] a.kind # "rejects" /\ a.ok /\ a.body = "nosource" ->
            Caught(TypeErrorMessage) /\ calls' = calls
      [] OTHER -> Await("model")

\* ddgResponse.ok is not looked at
SearchResponds_Ddg(a) ==
    CASE a.kind = "rejects" -> Caught(FetchErrorMessage) /\ calls' = calls
      [] a.kind # "rejects" /\ a.body = "text" ->
            Caught(InvalidJsonMessage) /\ calls' = calls
      [] OTHER -> Await("model")

SearchResponds(a) ==
    /\ pc \in {"news", "ddg"}
    /\ IF handler = "news" THEN SearchResponds_News(a) ELSE SearchResponds_Ddg(a)
    /\ answers' = Append(answers, a)
    /\ UNCHANGED <<variant, sessionVars, normVars, queryVars, env, forwarded, handler,
                   event, clickVars>>

\* String.prototype.indexOf, from 0, -1 when absent
IndexOf(cs, pat) ==
    IF \E i \in 1..(Len(cs) - Len(pat) + 1) : SubSeq(cs, i, i + Len(pat) - 1) = pat
    THEN (CHOOSE i \in 1..(Len(cs) - Len(pat) + 1) :
             /\ SubSeq(cs, i, i + Len(pat) - 1) = pat
             /\ \A j \in 1..(i - 1) : SubSeq(cs, j, j + Len(pat) - 1) # pat) - 1
    ELSE 0 - 1

\* String.prototype.trim
RECURSIVE TrimEnd(_)
TrimEnd(cs) ==
    IF cs # <<>> /\ IsWhiteSpace(cs[Len(cs)]) THEN TrimEnd(SubSeq(cs, 1, Len(cs) - 1))
    ELSE cs
Trim(cs) == TrimEnd(TrimStart(cs))

\* the "ddg" function keeps what follows the first "Explanation:"
delimiter == <<"E", "x", "p", "l", "a", "n", "a", "t", "i", "o", "n", ":">>
PostProcess(text) ==
    LET delimiterIndex == IndexOf(text, delimiter)
    IN  IF delimiterIndex # 0 - 1
        THEN Trim(SubSeq(text, delimiterIndex + Len(delimiter) + 1, Len(text)))
        ELSE text

\* Array.isArray(result) && result.length > 0 ? result[0].generated_text : ...
ExplanationOf(a) ==
    IF a.kind = "generated" THEN a.text ELSE <<"N", "o", " ", "e", "x", "p", "l", "a", "n", "a", "t", "i", "o", "n", " ", "f", "o", "u", "n", "d", ".">>

\* the model has answered: up to what is returned
ModelResponds(a) ==
    /\ pc = "model"
    /\ calls' = calls
    /\ answers' = Append(answers, a)
    /\ CASE a.kind = "rejects" -> Caught(FetchErrorMessage)
         [] a.kind = "status" -> Caught(<<"H", "u", "g", "g", "i", "n", "g", " ", "F", "a", "c", "e", " ", "A", "P", "I", " ", "e", "r", "r", "o", "r", ":", " ">> \o a.text)
         [] a.kind = "text" -> Caught(InvalidJsonMessage)
         [] a.kind = "error" ->
               Caught(<<"H", "u", "g", "g", "i", "n", "g", " ", "F", "a", "c", "e", " ", "A", "P", "I", " ", "r", "e", "t", "u", "r", "n", "e", "d", " ", "e", "r", "r", "o", "r", ":", " ">> \o a.text)
         [] OTHER ->
               /\ response' = Returned(200, "explanation",
                                 IF handler = "ddg" THEN PostProcess(ExplanationOf(a))
                                 ELSE ExplanationOf(a))
               /\ pc' = "done"
    /\ UNCHANGED <<variant, sessionVars, normVars, queryVars, env, forwarded, handler,
                   event, clickVars>>

\* ------------------------------------------------------------------------
\* The servers at work: any deployment, any request
\* ------------------------------------------------------------------------
Environments ==
    [USDA_API_KEY : {Undef, Str(<<>>), ConfiguredKey}, NEWS_API_KEY : {Undef, ConfiguredKey}]

InitServer ==
    /\ variant = "ref"
    /\ SessionInit
    /\ NormInit
    /\ QueryInit
    /\ env \in Environments
    /\ handler \in Handlers
    /\ ServerIdle
    /\ ClickInit

\* the proxies
NextProxy ==
    \/ \E url \in ProxyUrls, status \in UpstreamStatus : ProxyRequest(url, status)
    \/ \E query \in ProxyQueries, status \in UpstreamStatus : UsdaProxy(query, status)

SpecProxy == InitServer /\ [][NextProxy]_vars

\* the explanation function
NextHandler ==
    \/ \E body \in Bodies : Invoke(body)
    \/ \E a \in SearchAnswers : SearchResponds(a)
    \/ \E a \in ModelAnswers : ModelResponds(a)

SpecHandler == InitServer /\ [][NextHandler]_vars

\* ------------------------------------------------------------------------
\* Properties of the proxies (under SpecProxy)
\* ------------------------------------------------------------------------
\* the text after the first "?" of a URL
QueryOf(url) ==
    IF Includes(url, "?") THEN SubSeq(url, Len(PathOf(url)) + 2, Len(url)) ELSE <<>>

\* the pieces of cs between the separators
RECURSIVE SplitOn(_, _)
SplitOn(cs, sep) ==
    IF Includes(cs, sep)
    THEN LET k == CHOOSE i \in 1..Len(cs) : cs[i] = sep /\ \A j \in 1..(i - 1) : cs[j] # sep
         IN  <<SubSeq(cs, 1, k - 1)>> \o SplitOn(SubSeq(cs, k + 1, Len(cs)), sep)
    ELSE <<cs>>

\* the URL carries the query parameter name=value
HasParam(url, name, value) ==
    \E i \in 1..Len(SplitOn(QueryOf(url), "&")) :
        SplitOn(QueryOf(url), "&")[i] = name \o <<"=">> \o value

\* the request as the claim has it forwarded: /api for the mount prefix,
\* and the key after "&" or "?"
ForwardedAsClaimed(from, key) ==
    <<"/", "a", "p", "i">> \o SubSeq(from, 6, Len(from))
    \o (IF Includes(from, "?") THEN <<"&">> ELSE <<"?">>) \o <<"k", "e", "y", "=">> \o key

\* C21: every request the proxy forwards carries the server-side credential
\* as its `key` query parameter, and the Express server sends it with /api
\* in place of the /usda prefix and the key appended after "&" when the
\* request has a query string, after "?" otherwise.
C21_ForwardsWithKey ==
    (forwarded.set /\ Truthy(env.USDA_API_KEY))
    => /\ HasParam(forwarded.to, <<"k", "e", "y">>, env.USDA_API_KEY.s)
       /\ forwarded.by = "express"
          => forwarded.to = ForwardedAsClaimed(forwarded.from, env.USDA_API_KEY.s)

\* what holds: the same of the requests whose prefix is written /usda
ForwardsLowerCaseWithKey ==
    (forwarded.set /\ Truthy(env.USDA_API_KEY)
     /\ (forwarded.by = "express" => StartsWith(forwarded.from, <<"/", "u", "s", "d", "a">>)))
    => /\ HasParam(forwarded.to, <<"k", "e", "y">>, env.USDA_API_KEY.s)
       /\ forwarded.by = "express"
          => forwarded.to = ForwardedAsClaimed(forwarded.from, env.USDA_API_KEY.s)

\* ------------------------------------------------------------------------
\* Properties of the explanation function (under SpecHandler)
\* ------------------------------------------------------------------------
\* the invocation has returned
Done == pc = "done"

\* the function returned 500 with this message in `error`
Failed500(message) ==
    response.statusCode = 500 /\ response.body = [field |-> "error", text |-> Str(message)]

\* the answer of the call to this service, if it was made and answered
Answered(service) ==
    \E i \in 1..Len(answers) : calls[i] = service

AnswerOf(service) == answers[CHOOSE i \in 1..Len(answers) : calls[i] = service]

\* C22: an invocation of the explanation function makes one attempt: it calls
\* no service twice, never throws, and returns 200 with `explanation` or 500
\* with `error` carrying the failure's message: for a malformed body, a
\* missing date or a missing news key (News API function), a non-OK answer of
\* the News API or of the model, and an error field in the model's answer.
C22_SingleAttempt ==
    /\ \A i, j \in 1..Len(calls) : calls[i] = calls[j] => i = j
    /\ Done =>
        /\ \/ response.statusCode = 200 /\ response.body.field = "explanation"
              /\ response.body.text.t = "string"
           \/ response.statusCode = 500 /\ response.body.field = "error"
              /\ response.body.text.t = "string"
        /\ event.kind # "object" => Failed500(ParseMessage(event))
        /\ (handler = "news" /\ event.kind = "object" /\ ~Truthy(event.date))
           => Failed500(<<"D", "a", "t", "e", " ", "i", "s", " ", "r", "e", "q", "u", "i", "r", "e", "d">>)
        /\ (handler = "news" /\ event.kind = "object" /\ event.date = Str(LabelText)
            /\ ~Truthy(env.NEWS_API_KEY))
           => Failed500(<<"M", "i", "s", "s", "i", "n", "g", " ", "N", "E", "W", "S", "_", "A", "P", "I", "_", "K", "E", "Y">>)
        /\ (handler = "news" /\ Answered("news") /\ AnswerOf("news").kind = "answers"
            /\ ~AnswerOf("news").ok)
           => Failed500(<<"N", "e", "w", "s", " ", "A", "P", "I", " ", "e", "r", "r", "o", "r", ":", " ">> \o AnswerOf("news").statusText)
        /\ (Answered("model") /\ AnswerOf("model").kind = "status")
           => Failed500(<<"H", "u", "g", "g", "i", "n", "g", " ", "F", "a", "c", "e", " ", "A", "P", "I", " ", "e", "r", "r", "o", "r", ":", " ">> \o AnswerOf("model").text)
        /\ (Answered("model") /\ AnswerOf("model").kind = "error")
           => Failed500(<<"H", "u", "g", "g", "i", "n", "g", " ", "F", "a", "c", "e", " ", "A", "P", "I", " ", "r", "e", "t", "u", "r", "n", "e", "d", " ", "e", "r", "r", "o", "r", ":", " ">> \o AnswerOf("model").text)
        /\ (Answered("model") /\ AnswerOf("model").kind \in {"generated", "empty", "object"})
           => response.statusCode = 200

\* the model answered with a status that is not OK, and 500 was returned
C22_Witness ==
    /\ Done
    /\ Answered("model") /\ AnswerOf("model").kind = "status"
    /\ response.statusCode = 500

\* the body passes the validation of the News API function
ValidEvent == event.kind = "object" /\ Truthy(event.date) /\ ~ToISOStringThrows(event.date)

\* C23: in the News API function the validation precedes every external call
\* and the news search precedes the model's inference: no call is made when
\* the date is missing or the news key is unset, and the model is never
\* called when the news call fails or is answered with a status not OK.
C23_CallOrder ==
    handler = "news" =>
        /\ calls \in {<<>>, <<"news">>, <<"news", "model">>}
        /\ calls # <<>> => (ValidEvent /\ Truthy(env.NEWS_API_KEY))
        /\ (\E i \in 1..Len(calls) : calls[i] = "model")
           => (Answered("news") /\ AnswerOf("news").kind = "answers" /\ AnswerOf("news").ok)

\* both calls were made, and the function has returned
C23_Witness ==
    /\ handler = "news"
    /\ calls = <<"news", "model">>
    /\ Done

\* ------------------------------------------------------------------------
\* The explanation panel: handleChartClick and the request it sends
\* ------------------------------------------------------------------------
MaxClicks == 3

\* the text of a label and of a price, as a template literal makes them
MonthShortChars ==
    << <<"J", "a", "n">>, <<"F", "e", "b">>, <<"M", "a", "r">>, <<"A", "p", "r">>, <<"M", "a", "y">>, <<"J", "u", "n">>,
       <<"J", "u", "l">>, <<"A", "u", "g">>, <<"S", "e", "p">>, <<"O", "c", "t">>, <<"N", "o", "v">>, <<"D", "e", "c">> >>

LabelChars(label) ==
    IF label.mon = "Invalid Date" THEN <<"I", "n", "v", "a", "l", "i", "d", " ", "D", "a", "t", "e">>
    ELSE MonthShortChars[CHOOSE i \in 1..12 : MonthShort[i] = label.mon]
         \o <<" ">> \o NatToChars(label.day) \o <<",", " ">> \o NatToChars(label.year)

\* a price of the chart: null, or a number kept in hundredths (2.5 is 250)
PriceChars(price) ==
    IF price.t # "number" THEN ToStringJS(price)
    ELSE NatToChars(price.n \div 100)
         \o (IF price.n % 100 = 0 THEN <<>>
             ELSE IF price.n % 10 = 0 THEN <<".", DigitChars[((price.n % 100) \div 10) + 1]>>
             ELSE <<".">> \o Two(price.n % 100))

\* cacheKey = `${label}-${price}`
cacheKey(label, price) == LabelChars(label) \o <<"-">> \o PriceChars(price)

\* cacheRef.current[key], undefined for a key never stored
CacheGet(key) == IF key \in DOMAIN cacheRef THEN cacheRef[key] ELSE Undef

\* cacheRef.current[key] = value
CachePut(key, value) ==
    [k \in DOMAIN cacheRef \cup {key} |-> IF k = key THEN value ELSE cacheRef[k]]

\* what the client gets from the explanation function: the request fails, or
\* there is a response: 200 with `explanation`, 500 with `error`, or one of
\* the gateway with a body that is no JSON
ClientAnswer(kind, ok, statusText, text) ==
    [kind |-> kind, ok |-> ok, statusText |-> statusText, text |-> text]
ExplanationTexts == { <<"F", "e", "e", "d", " ", "c", "o", "s", "t", "s", " ", "r", "o", "s", "e", ".">>, <<"D", "e", "m", "a", "n", "d", " ", "f", "e", "l", "l", ".">>, <<>> }
ClientAnswers ==
    { ClientAnswer("rejects", FALSE, <<>>, <<"F", "a", "i", "l", "e", "d", " ", "t", "o", " ", "f", "e", "t", "c", "h">>),
      ClientAnswer("error", FALSE, <<"I", "n", "t", "e", "r", "n", "a", "l", " ", "S", "e", "r", "v", "e", "r", " ", "E", "r", "r", "o", "r">>, <<"D", "a", "t", "e", " ", "i", "s", " ", "r", "e", "q", "u", "i", "r", "e", "d">>),
      ClientAnswer("text", FALSE, <<"B", "a", "d", " ", "G", "a", "t", "e", "w", "a", "y">>, <<>>) }
    \cup {ClientAnswer("explanation", TRUE, <<"O", "K">>, t) : t \in ExplanationTexts}

\* the chart is on the page: the cache variant always renders it
ChartShown ==
    /\ ~crashed
    /\ chartData.set
    /\ variant # "cache" => (~loading /\ ~error.set)

\* a request for the explanation of a point
Request(id, label, price) == [id |-> id, label |-> label, price |-> price]

\* handleChartClick of the components that keep the selected point: the
\* point is selected and its explanation is asked for
ClickSelects(label, price) ==
    /\ selectedPoint' = Point(label, price)
    /\ requests' = requests \cup {Request(clicked.n + 1, label, price)}
    /\ Render(timeFrame)
    /\ UNCHANGED <<explanation, cacheRef, shownFor>>

\* handleChartClick of the cache variant: the explanation kept for the key
\* is shown if it is truthy, and asked for otherwise
ClickCached(label, price) ==
    /\ IF Truthy(CacheGet(cacheKey(label, price)))
       THEN /\ explanation' = CacheGet(cacheKey(label, price))
            /\ shownFor' = Point(label, price)
            /\ UNCHANGED requests
       ELSE /\ explanation' = Str(<<"L", "o", "a", "d", "i", "n", "g", ".", ".", ".">>)
            /\ shownFor' = NoPoint
            /\ requests' = requests \cup {Request(clicked.n + 1, label, price)}
    /\ UNCHANGED <<selectedPoint, cacheRef, footer>>

\* a click on the i-th point of the chart
Click(i) ==
    /\ ChartShown
    /\ clicked.n < MaxClicks
    /\ i \in 1..Len(chartData.labels)
    /\ clicked' = [n |-> clicked.n + 1, label |-> chartData.labels[i],
                   price |-> chartData.values[i]]
    /\ IF variant = "cache" THEN ClickCached(chartData.labels[i], chartData.values[i])
       ELSE ClickSelects(chartData.labels[i], chartData.values[i])
    /\ UNCHANGED <<variant, fullData, chartData, timeFrame, loading, error, now, cutoff,
                   filteredAt, fetches, started, crashed, settled, normVars, queryVars,
                   serverVars>>

\* fetchExplanation of the components that keep the selected point: what
\* setExplanation is given
ExplanationText(a) ==
    CASE a.kind = "rejects" -> Str(<<"E", "r", "r", "o", "r", ":", " ">> \o a.text)
      [] a.kind # "rejects" /\ ~a.ok -> Str(<<"E", "r", "r", "o", "r", ":", " ", "L", "L", "M", " ", "A", "P", "I", " ", "e", "r", "r", "o", "r", ":", " ">> \o a.statusText)
      [] OTHER -> Str(a.text)

RespondsSelecting(r, a) ==
    /\ explanation' = ExplanationText(a)
    /\ shownFor' = Point(r.label, r.price)
    /\ footer' = IF ExplanationText(a) # explanation THEN Footer(timeFrame, now) ELSE footer
    /\ UNCHANGED <<selectedPoint, cacheRef>>

\* the cache variant: response.ok is not looked at, result.explanation is
\* stored under the key and shown; a failed request or a body that is no
\* JSON is caught
RespondsCached(r, a) ==
    /\ IF a.kind \in {"rejects", "text"}
       THEN /\ explanation' = Str(<<"E", "r", "r", "o", "r", " ", "f", "e", "t", "c", "h", "i", "n", "g", " ", "e", "x", "p", "l", "a", "n", "a", "t", "i", "o", "n", ":", " ">>
                                  \o (IF a.kind = "rejects" THEN a.text
                                      ELSE SyntaxErrorMessage))
            /\ UNCHANGED cacheRef
       ELSE LET value == IF a.kind = "explanation" THEN Str(a.text) ELSE Undef
            IN  /\ cacheRef' = CachePut(cacheKey(r.label, r.price), value)
                /\ explanation' = value
    /\ shownFor' = Point(r.label, r.price)
    /\ UNCHANGED <<selectedPoint, footer>>

\* the request r is answered
ExplanationResponds(r, a) ==
    /\ ~crashed
    /\ r \in requests
    /\ requests' = requests \ {r}
    /\ IF variant = "cache" THEN RespondsCached(r, a) ELSE RespondsSelecting(r, a)
    /\ UNCHANGED <<variant, fullData, chartData, timeFrame, loading, error, now, cutoff,
                   filteredAt, fetches, started, crashed, settled, normVars, queryVars,
                   serverVars, clicked>>

\* the Series on the chart when the clicks begin: two records, fetched at
\* mount and shown for the default window. The cache variant has no code
\* that builds its chart data: its chart is taken to be the same.
ClickSeries == <<R2020, RJune>>

InitClick ==
    /\ variant \in {"ref", "cache"}
    /\ fullData = ClickSeries
    /\ chartData = ChartAt("ref", ClickSeries, "5Y", ClockInstants[1])
    /\ timeFrame = "5Y"
    /\ loading = FALSE
    /\ error = NoError
    /\ now = ClockInstants[1]
    /\ cutoff = IF variant = "cache" THEN InvalidDate ELSE getCutoffDate("5Y", ClockInstants[1])
    /\ filteredAt = IF variant = "cache" THEN InvalidDate ELSE ClockInstants[1]
    /\ fetches = {}
    /\ started = 1
    /\ crashed = FALSE
    /\ settled = [kind |-> "JSON", data |-> ClickSeries, id |-> 1]
    /\ footer = IF variant = "cache" THEN NoFooter ELSE Footer("5Y", ClockInstants[1])
    /\ NormInit
    /\ QueryInit
    /\ ServerInit
    /\ ClickInit

NextClick ==
    \/ \E i \in 1..Len(ClickSeries) : Click(i)
    \/ \E r \in requests, a \in ClientAnswers : ExplanationResponds(r, a)
    \/ \E tf \in TimeFrames : SelectTimeFrame(tf)
    \/ Tick(SessionClock)

SpecClick == InitClick /\ [][NextClick]_vars

\* ------------------------------------------------------------------------
\* Properties of the explanation panel (under SpecClick)
\* ------------------------------------------------------------------------
\* this step is a click on a point
Clicks == clicked'.n = clicked.n + 1

\* the key of the point this step clicks on
ClickedKey == cacheKey(clicked'.label, clicked'.price)

\* this step stores under each key it changes what the request for that key
\* was answered, the text this step shows
StoresTheAnswer ==
    \A key \in DOMAIN cacheRef' :
        (key \notin DOMAIN cacheRef \/ cacheRef'[key] # CacheGet(key))
        => /\ \E r \in requests \ requests' : cacheKey(r.label, r.price) = key
           /\ cacheRef'[key] = explanation'

CacheOfNonEmptyTexts ==
    [][variant = "cache"
       => /\ (Clicks /\ Truthy(CacheGet(ClickedKey)))
             => (explanation' = CacheGet(ClickedKey) /\ requests' = requests)
          /\ StoresTheAnswer]_vars

\* the point last clicked
LastClicked == Point(clicked.label, clicked.price)

\* this step is the answer to a request for another point than the one last
\* clicked
StaleAnswer ==
    \E r \in requests \ requests' : Point(r.label, r.price) # LastClicked

\* C25: after any interleaving of clicks and responses the explanation shown
\* is the one of the point selected last, and the response to the request of
\* an earlier selection never replaces the explanation shown.
C25_ShowsTheSelected ==
    /\ []((requests = {} /\ clicked.n > 0 /\ shownFor.set) => shownFor = LastClicked)
    /\ [][StaleAnswer => explanation' = explanation]_vars

\* C28: the cutoff the footer shows ('Displaying data for date >= ...') is
\* always the cutoff the chart shown was filtered with, after every sequence
\* of time frame selections, clicks, re-renders and clock advances.
C28_FooterIsTheCutoffUsed ==
    (variant # "cache" /\ ChartShown /\ filteredAt.ok)
    => footer = toLocaleDateString(cutoff)

\* what holds: the footer is the cutoff of the last render's clock
FooterOfTheLastRender ==
    variant # "cache"
    => \E i \in 1..Len(ClockInstants) :
          /\ AtOrAfter(now, ClockInstants[i])
          /\ footer = Footer(timeFrame, ClockInstants[i])
====
